---- MODULE Spec2Model ----
(***************************************************************************)
(* go-proj: Context / PJ handle lifecycle, context locking and the errno   *)
(* protocol of the Trans family (context.go, pj.go).                       *)
(*                                                                         *)
(* Go-side state: every Context has a mutex and an engine handle           *)
(* (pjContext); every PJ has a back-reference to its Context and a native  *)
(* handle (pj).  Native-side state: the per-context errno register and,    *)
(* per native handle, how often its release function has been invoked.     *)
(* Goroutines execute the public operations step by step: lock             *)
(* acquisitions and native calls are separate steps, so that blocked       *)
(* goroutines and overlapping native calls are states of the model.        *)
(***************************************************************************)
EXTENDS Integers, Sequences, FiniteSets, TLC

VARIABLES mutex, pjContext, ctxFreed, pjs, errno, pc, call, held, native, ret,
          gc

vars == <<mutex, pjContext, ctxFreed, pjs, errno, pc, call, held, native, ret,
          gc>>

----------------------------------------------------------------------------
(* Bounds *)

\* largest number of PJ objects the factories create during a run
MaxNewPJ == 1
\* coordinate components are 0 .. MaxVal
MaxVal == 1
\* native error numbers are 0 (no error) .. MaxErrno
MaxErrno == 1
\* longest slice of coordinates (or of float64 slices) passed in
MaxLen == 2
\* longest flat buffer passed to TransFlatCoords; strides are 0 .. MaxFlat - 1
MaxFlat == 6
\* largest point count passed to TransGeneric directly
MaxCount == 2

----------------------------------------------------------------------------
(* Values *)

Threads == {"t1", "t2"}
NoThread == "none"
NilCtx == "nil"
NoArg == "-"
NilPJ == 0

\* the contexts that exist (created by NewContext before the run)
Ctxs == DOMAIN mutex
PJIds == 1..Len(pjs)
Errnos == 0..MaxErrno

\* error values: nil, or *Error carrying an errno (Context.newError)
NilErr == [kind |-> "nil", errno |-> 0]
newError(e) == [kind |-> "Error", errno |-> e]

\* out of a native call: what the engine handed back, once it has
NoOut == [done |-> FALSE]
NoNative == [fn |-> "none", ctx |-> NoArg, args |-> <<>>, ok |-> TRUE, out |-> NoOut]
IdleCall == [op |-> "none"]
\* what a goroutine got back from its last call (nothing from Destroy)
NoRet == [op |-> "none"]

\* what the garbage collector knows: the objects the program holds no
\* reference to any more, and the objects whose finalizer it has called
NoGC == [pjDropped |-> {}, ctxDropped |-> {}, pjFinalized |-> {},
         ctxFinalized |-> {}]

\* a PJ object as Context.newPJ builds it; freed counts the native
\* proj_destroy invocations on its handle
PJObject(c, h) == [context |-> c, pj |-> h, freed |-> 0]

----------------------------------------------------------------------------
(* The native engine, seen from the binding *)

\* an engine handle handed to a native function is usable
EngineOk(h) == h # NilCtx /\ ctxFreed[h] = 0
\* a PJ handle handed to a native function is usable
HandleOk(h) == h # NilPJ /\ pjs[h].freed = 0 /\ ctxFreed[pjs[h].context] = 0

\* the record of a native call in progress; ok tells whether every handle
\* it received was usable when the call was issued
NativeCall(fn, ctx, args) ==
    [fn |-> fn, ctx |-> ctx, args |-> args,
     ok |-> (ctx # NoArg => EngineOk(ctx))
            /\ \A i \in 1..Len(args) : HandleOk(args[i]),
     out |-> NoOut]

\* the native call nat works on context c: it received c's engine handle
\* or a PJ handle created from it
Touches(nat, c) ==
    /\ nat.fn # "none"
    /\ \/ nat.ctx = c
       \/ \E i \in 1..Len(nat.args) :
            nat.args[i] # NilPJ /\ pjs[nat.args[i]].context = c

\* proj_errno(P) / proj_context_errno(ctx): the register of the context the
\* handle belongs to; through an unusable handle any value can be read
ErrnoRead(c, usable) == IF usable THEN {errno[c]} ELSE Errnos

\* the errno register after a native call on context c that raised nset
\* (0: the call raised nothing, the register keeps its value)
Raise(c, nset) == IF nset = 0 THEN errno ELSE [errno EXCEPT ![c] = nset]

----------------------------------------------------------------------------
(* Locking: Context.Lock / Context.Unlock and the deferred unlocks *)

\* the contexts NewCRSToCRSFromPJ and CreateCompoundCrs lock, in order:
\* the receiver c, then the owner sc of the first PJ and the owner tc of
\* the second PJ, each only under the condition the code tests
LockOrderNoDedup(c, sc, tc) ==
    <<c>> \o (IF sc # c THEN <<sc>> ELSE <<>>)
          \o (IF tc # c THEN <<tc>> ELSE <<>>)

LockOrder(c, sc, tc) ==
    <<c>> \o (IF sc # c THEN <<sc>> ELSE <<>>)
          \o (IF tc # c /\ tc # sc THEN <<tc>> ELSE <<>>)

\* the context the goroutine t locks next
NextLock(t) == call[t].plan[Len(held[t]) + 1]

\* c.Lock() as the first statement of an operation: the goroutine enters
\* the operation and blocks in sync.Mutex.Lock until the mutex is free.
\* The result of its previous call is dropped.
Enter(t, c, rec) ==
    /\ pc[t] = "idle"
    /\ mutex[c] = NoThread
    /\ mutex' = [mutex EXCEPT ![c] = t]
    /\ held' = [held EXCEPT ![t] = <<c>>]
    /\ call' = [call EXCEPT ![t] = rec]
    /\ ret' = [ret EXCEPT ![t] = NoRet]
    /\ pc' = [pc EXCEPT ![t] = IF Len(rec.plan) = 1 THEN "body" ELSE "lock"]

\* Context.Lock on the next context of a multi-context operation; the
\* mutex is not reentrant, a goroutine that holds it blocks as well
Lock(t) ==
    /\ pc[t] = "lock"
    /\ mutex[NextLock(t)] = NoThread
    /\ mutex' = [mutex EXCEPT ![NextLock(t)] = t]
    /\ held' = [held EXCEPT ![t] = Append(@, NextLock(t))]
    /\ pc' = [pc EXCEPT ![t] =
                IF Len(held[t]) + 1 = Len(call[t].plan) THEN "body" ELSE "lock"]
    /\ UNCHANGED <<pjContext, ctxFreed, pjs, errno, call, native, ret, gc>>

\* defer c.Unlock() follows every c.Lock(): held[t] lists the contexts
\* whose Unlock the goroutine has deferred.  When they run, the mutex of
\* each is released, whoever holds it (First: only the Unlock of the
\* receiver is deferred)
UnlockFirst(t) ==
    [c \in Ctxs |-> IF Len(held[t]) > 0 /\ held[t][1] = c
                    THEN NoThread ELSE mutex[c]]
Unlock(t) ==
    [c \in Ctxs |-> IF \E i \in 1..Len(held[t]) : held[t][i] = c
                    THEN NoThread ELSE mutex[c]]

\* the operation of t returns r: deferred unlocks, result handed back to
\* the caller of the goroutine, or to the operation that called this one
\* (outer), which resumes with r
Return(t, r) ==
    /\ mutex' = Unlock(t)
    /\ held' = [held EXCEPT ![t] = <<>>]
    /\ native' = [native EXCEPT ![t] = NoNative]
    /\ IF "outer" \in DOMAIN call[t]
       THEN /\ pc' = [pc EXCEPT ![t] = "resume"]
            /\ call' = [call EXCEPT ![t] = [call[t].outer EXCEPT !.sub = r]]
            /\ UNCHANGED <<ret, gc>>
       ELSE /\ pc' = [pc EXCEPT ![t] = "idle"]
            /\ call' = [call EXCEPT ![t] = IdleCall]
            /\ ret' = [ret EXCEPT ![t] = r]

\* a call that returns r before it locks anything or calls the engine
ReturnAtOnce(t, r) ==
    /\ pc[t] = "idle"
    /\ ret' = [ret EXCEPT ![t] = r]
    /\ UNCHANGED <<mutex, pjContext, ctxFreed, pjs, errno, pc, call, held, native, gc>>

\* a run-time panic (index out of range, integer divide by zero): the
\* deferred unlocks run, the goroutine does not continue
Panic(t, rec) ==
    /\ mutex' = Unlock(t)
    /\ held' = [held EXCEPT ![t] = <<>>]
    /\ pc' = [pc EXCEPT ![t] = "panic"]
    /\ call' = [call EXCEPT ![t] = rec]
    /\ native' = [native EXCEPT ![t] = NoNative]
    /\ ret' = [ret EXCEPT ![t] = NoRet]
    /\ UNCHANGED <<pjContext, ctxFreed, pjs, errno, gc>>

\* the operation of t issues a native call
Issue(t, nat) ==
    /\ native' = [native EXCEPT ![t] = nat]
    /\ pc' = [pc EXCEPT ![t] = "native"]

\* the engine finishes the native call of t and hands back out
Finish(t, out) ==
    /\ native' = [native EXCEPT ![t].out = out]
    /\ pc' = [pc EXCEPT ![t] = "after"]

----------------------------------------------------------------------------
(* Context.Destroy *)

ContextDestroy(t, c) ==
    /\ Enter(t, c, [op |-> "Context.Destroy", c |-> c, plan |-> <<c>>])
    /\ UNCHANGED <<pjContext, ctxFreed, pjs, errno, native, gc>>

\* if c.pjContext != nil { C.proj_context_destroy(c.pjContext) ...
ContextDestroyBody(t) ==
    /\ pc[t] = "body" /\ call[t].op = "Context.Destroy"
    /\ LET c == call[t].c IN
        IF pjContext[c] # NilCtx
        THEN /\ Issue(t, NativeCall("proj_context_destroy", pjContext[c], <<>>))
             /\ ctxFreed' = [ctxFreed EXCEPT ![pjContext[c]] = @ + 1]
             /\ UNCHANGED <<mutex, pjContext, pjs, errno, call, held, ret, gc>>
        ELSE /\ Return(t, NoRet)
             /\ UNCHANGED <<pjContext, ctxFreed, pjs, errno, gc>>

\* ... c.pjContext = nil }, deferred Unlock
ContextDestroyReturn(t) ==
    /\ pc[t] = "native" /\ call[t].op = "Context.Destroy"
    /\ pjContext' = [pjContext EXCEPT ![call[t].c] = NilCtx]
    /\ Return(t, NoRet)
    /\ UNCHANGED <<ctxFreed, pjs, errno, gc>>

----------------------------------------------------------------------------
(* PJ.Destroy *)

PJDestroy(t, p) ==
    /\ Enter(t, pjs[p].context,
             [op |-> "PJ.Destroy", p |-> p, plan |-> <<pjs[p].context>>])
    /\ UNCHANGED <<pjContext, ctxFreed, pjs, errno, native, gc>>

\* if pj.pj != nil { C.proj_destroy(pj.pj) ... (All: every handle of the
\* PJ's context is released)
PJDestroyBodyAll(t) ==
    /\ pc[t] = "body" /\ call[t].op = "PJ.Destroy"
    /\ LET p == call[t].p IN
        IF pjs[p].pj # NilPJ
        THEN /\ Issue(t, NativeCall("proj_destroy", NoArg, <<pjs[p].pj>>))
             /\ pjs' = [q \in DOMAIN pjs |->
                          IF pjs[q].context = pjs[p].context
                          THEN [pjs[q] EXCEPT !.freed = @ + 1] ELSE pjs[q]]
             /\ UNCHANGED <<mutex, pjContext, ctxFreed, errno, call, held, ret, gc>>
        ELSE /\ Return(t, NoRet)
             /\ UNCHANGED <<pjContext, ctxFreed, pjs, errno, gc>>

PJDestroyBody(t) ==
    /\ pc[t] = "body" /\ call[t].op = "PJ.Destroy"
    /\ LET p == call[t].p IN
        IF pjs[p].pj # NilPJ
        THEN /\ Issue(t, NativeCall("proj_destroy", NoArg, <<pjs[p].pj>>))
             /\ pjs' = [pjs EXCEPT ![pjs[p].pj].freed = @ + 1]
             /\ UNCHANGED <<mutex, pjContext, ctxFreed, errno, call, held, ret, gc>>
        ELSE /\ Return(t, NoRet)
             /\ UNCHANGED <<pjContext, ctxFreed, pjs, errno, gc>>

\* ... pj.pj = nil }, deferred Unlock (Keep: without the assignment)
PJDestroyReturnKeep(t) ==
    /\ pc[t] = "native" /\ call[t].op = "PJ.Destroy"
    /\ Return(t, NoRet)
    /\ UNCHANGED <<pjContext, ctxFreed, pjs, errno, gc>>

PJDestroyReturn(t) ==
    /\ pc[t] = "native" /\ call[t].op = "PJ.Destroy"
    /\ pjs' = [pjs EXCEPT ![call[t].p].pj = NilPJ]
    /\ Return(t, NoRet)
    /\ UNCHANGED <<pjContext, ctxFreed, errno, gc>>

----------------------------------------------------------------------------
(* Context.newPJ and the factories that compose two PJs *)

\* the native factory may hand back a new handle while the model has room
Pending == {t \in Threads : native[t].out.done /\ call[t].op \in
                {"NewCRSToCRSFromPJ", "CreateCompoundCrs", "New", "NewFromArgs",
                 "NewCRSToCRS", "NormalizeForVisualization",
                 "GetLastUsedOperation", "GetSubCRS", "Identify"}
                /\ "null" \in DOMAIN native[t].out /\ ~native[t].out.null}
CanCreate == Len(pjs) + Cardinality(Pending) < Cardinality(Ctxs) + MaxNewPJ

\* newPJ: a NULL handle gives (nil, error with the context's errno), any
\* other handle a PJ object owned by c, here the object number cPJ
\* (Check: the error is made as checkError makes it, nil for errno 0)
newPJCheck(c, cPJ, e) ==
    IF cPJ = NilPJ
    THEN [obj |-> NilPJ, err |-> IF e = 0 THEN NilErr ELSE newError(e)]
    ELSE [obj |-> cPJ, err |-> NilErr]

newPJ(c, cPJ, e) ==
    IF cPJ = NilPJ
    THEN [obj |-> NilPJ, err |-> newError(e)]
    ELSE [obj |-> cPJ, err |-> NilErr]

\* the native factory hands back a new handle, or NULL and maybe an errno
FactoryNative(t, op) ==
    /\ pc[t] = "native" /\ call[t].op = op
    /\ \/ /\ CanCreate
          /\ Finish(t, [done |-> TRUE, null |-> FALSE])
          /\ errno' = errno
       \/ \E nset \in Errnos :
            /\ Finish(t, [done |-> TRUE, null |-> TRUE])
            /\ errno' = Raise(call[t].c, nset)
    /\ UNCHANGED <<mutex, pjContext, ctxFreed, pjs, call, held, ret, gc>>

\* pj := &PJ{context: c, ...}: the owner of the PJ object a call makes is
\* the receiver of newPJ (Source: the context of the PJ argument instead)
NewOwnerSource(t) ==
    IF "p" \in DOMAIN call[t] THEN pjs[call[t].p].context ELSE call[t].c
NewOwner(t) == call[t].c

\* return c.newPJ(...), deferred unlocks
FactoryReturn(t, op) ==
    /\ pc[t] = "after" /\ call[t].op = op
    /\ LET c == call[t].c
           cPJ == IF native[t].out.null THEN NilPJ ELSE Len(pjs) + 1
       IN \E e \in ErrnoRead(c, EngineOk(pjContext[c])) :
            /\ pjs' = IF cPJ = NilPJ THEN pjs
                      ELSE Append(pjs, PJObject(NewOwner(t), cPJ))
            /\ Return(t, [op |-> op, c |-> c] @@ newPJ(c, cPJ, e))
    /\ UNCHANGED <<pjContext, ctxFreed, errno, gc>>

NewCRSToCRSFromPJ(t, c, sourcePJ, targetPJ) ==
    /\ Enter(t, c, [op |-> "NewCRSToCRSFromPJ", c |-> c,
                    p |-> sourcePJ, q |-> targetPJ,
                    plan |-> LockOrder(c, pjs[sourcePJ].context,
                                          pjs[targetPJ].context)])
    /\ UNCHANGED <<pjContext, ctxFreed, pjs, errno, native, gc>>

NewCRSToCRSFromPJBody(t) ==
    /\ pc[t] = "body" /\ call[t].op = "NewCRSToCRSFromPJ"
    /\ Issue(t, NativeCall("proj_create_crs_to_crs_from_pj", pjContext[call[t].c],
                           <<pjs[call[t].p].pj, pjs[call[t].q].pj>>))
    /\ UNCHANGED <<mutex, pjContext, ctxFreed, pjs, errno, call, held, ret, gc>>

NewCRSToCRSFromPJNative(t) == FactoryNative(t, "NewCRSToCRSFromPJ")

NewCRSToCRSFromPJReturn(t) == FactoryReturn(t, "NewCRSToCRSFromPJ")

\* the C string handed to proj_create_compound_crs: the cName assigned
\* inside the if block is a new variable of that block, the outer cName
\* stays nil
NullString == "NULL"
CompoundName(name) == NullString

CreateCompoundCrs(t, c, name, horizontalPJ, verticalPJ) ==
    /\ Enter(t, c, [op |-> "CreateCompoundCrs", c |-> c, name |-> name,
                    p |-> horizontalPJ, q |-> verticalPJ,
                    plan |-> LockOrder(c, pjs[horizontalPJ].context,
                                          pjs[verticalPJ].context)])
    /\ UNCHANGED <<pjContext, ctxFreed, pjs, errno, native, gc>>

CreateCompoundCrsBody(t) ==
    /\ pc[t] = "body" /\ call[t].op = "CreateCompoundCrs"
    /\ Issue(t, NativeCall("proj_create_compound_crs", pjContext[call[t].c],
                           <<pjs[call[t].p].pj, pjs[call[t].q].pj>>)
                @@ [name |-> CompoundName(call[t].name)])
    /\ UNCHANGED <<mutex, pjContext, ctxFreed, pjs, errno, call, held, ret, gc>>

CreateCompoundCrsNative(t) == FactoryNative(t, "CreateCompoundCrs")

CreateCompoundCrsReturn(t) == FactoryReturn(t, "CreateCompoundCrs")

----------------------------------------------------------------------------
(* Context.New, Context.NewFromArgs, Context.NewCRSToCRS,                  *)
(* PJ.NormalizeForVisualization, PJ.GetLastUsedOperation                   *)

New(t, c, definition) ==
    /\ Enter(t, c, [op |-> "New", c |-> c, definition |-> definition,
                    plan |-> <<c>>])
    /\ UNCHANGED <<pjContext, ctxFreed, pjs, errno, native, gc>>

NewBody(t) ==
    /\ pc[t] = "body" /\ call[t].op = "New"
    /\ Issue(t, NativeCall("proj_create", pjContext[call[t].c], <<>>))
    /\ UNCHANGED <<mutex, pjContext, ctxFreed, pjs, errno, call, held, ret, gc>>

NewFromArgs(t, c, args) ==
    /\ Enter(t, c, [op |-> "NewFromArgs", c |-> c, args |-> args,
                    plan |-> <<c>>])
    /\ UNCHANGED <<pjContext, ctxFreed, pjs, errno, native, gc>>

\* cArgs := make([]*C.char, len(args)) ...; &cArgs[0] is a run-time panic
\* for an empty cArgs
NewFromArgsBody(t) ==
    /\ pc[t] = "body" /\ call[t].op = "NewFromArgs"
    /\ IF Len(call[t].args) = 0
       THEN Panic(t, [op |-> "NewFromArgs", n |-> 0])
       ELSE /\ Issue(t, NativeCall("proj_create_argv", pjContext[call[t].c], <<>>)
                        @@ [argc |-> Len(call[t].args)])
            /\ UNCHANGED <<mutex, pjContext, ctxFreed, pjs, errno, call, held, ret, gc>>

NewCRSToCRS(t, c, sourceCRS, targetCRS) ==
    /\ Enter(t, c, [op |-> "NewCRSToCRS", c |-> c, sourceCRS |-> sourceCRS,
                    targetCRS |-> targetCRS, plan |-> <<c>>])
    /\ UNCHANGED <<pjContext, ctxFreed, pjs, errno, native, gc>>

NewCRSToCRSBody(t) ==
    /\ pc[t] = "body" /\ call[t].op = "NewCRSToCRS"
    /\ Issue(t, NativeCall("proj_create_crs_to_crs", pjContext[call[t].c], <<>>))
    /\ UNCHANGED <<mutex, pjContext, ctxFreed, pjs, errno, call, held, ret, gc>>

\* pj.context.Lock(); return pj.context.newPJ(...): the receiver of newPJ
\* is the context of pj
NormalizeForVisualization(t, p) ==
    /\ Enter(t, pjs[p].context,
             [op |-> "NormalizeForVisualization", c |-> pjs[p].context,
              p |-> p, plan |-> <<pjs[p].context>>])
    /\ UNCHANGED <<pjContext, ctxFreed, pjs, errno, native, gc>>

NormalizeForVisualizationBody(t) ==
    /\ pc[t] = "body" /\ call[t].op = "NormalizeForVisualization"
    /\ Issue(t, NativeCall("proj_normalize_for_visualization",
                           pjContext[call[t].c], <<pjs[call[t].p].pj>>))
    /\ UNCHANGED <<mutex, pjContext, ctxFreed, pjs, errno, call, held, ret, gc>>

GetLastUsedOperation(t, p) ==
    /\ Enter(t, pjs[p].context,
             [op |-> "GetLastUsedOperation", c |-> pjs[p].context,
              p |-> p, plan |-> <<pjs[p].context>>])
    /\ UNCHANGED <<pjContext, ctxFreed, pjs, errno, native, gc>>

GetLastUsedOperationBody(t) ==
    /\ pc[t] = "body" /\ call[t].op = "GetLastUsedOperation"
    /\ Issue(t, NativeCall("proj_trans_get_last_used_operation", NoArg,
                           <<pjs[call[t].p].pj>>))
    /\ UNCHANGED <<mutex, pjContext, ctxFreed, pjs, errno, call, held, ret, gc>>

\* the factories that lock one context
Factories1 == {"New", "NewFromArgs", "NewCRSToCRS",
               "NormalizeForVisualization", "GetLastUsedOperation"}

\* the native call of such a factory finishes; the factory returns
\* c.newPJ(...) of what it handed back
CreateNative(t) == \E op \in Factories1 : FactoryNative(t, op)
CreateReturn(t) == \E op \in Factories1 : FactoryReturn(t, op)

----------------------------------------------------------------------------
(* PJ.IsCRS: no lock is taken *)

IsCRS(t, p) ==
    /\ pc[t] = "idle"
    /\ call' = [call EXCEPT ![t] = [op |-> "IsCRS", p |-> p]]
    /\ ret' = [ret EXCEPT ![t] = NoRet]
    /\ Issue(t, NativeCall("proj_is_crs", NoArg, <<pjs[p].pj>>))
    /\ UNCHANGED <<mutex, pjContext, ctxFreed, pjs, errno, held, gc>>

\* return C.proj_is_crs(pj.pj) != 0
IsCRSReturn(t) ==
    /\ pc[t] = "native" /\ call[t].op = "IsCRS"
    /\ \E b \in BOOLEAN : Return(t, [op |-> "IsCRS", val |-> b])
    /\ UNCHANGED <<pjContext, ctxFreed, pjs, errno, gc>>

----------------------------------------------------------------------------
(* Coordinates and the native transformation *)

DirectionFwd == 1
DirectionIdent == 0
DirectionInv == -1
Directions == {DirectionFwd, DirectionIdent, DirectionInv}

Vals == 0..MaxVal
\* Coord is [4]float64; Coord{} is the zero value
ZeroCoord == <<0, 0, 0, 0>>
\* the coordinates (and bounds) callers pass in
InputCoords == {<<a, b, b, a>> : a, b \in Vals}

\* what the engine does to one ordinate: it is shifted by the direction
\* (forward and inverse undo each other, identity changes nothing)
EngineVal(direction, v) == (v + direction) % (MaxVal + 1)
Engine(direction, coord) == [i \in 1..4 |-> EngineVal(direction, coord[i])]
\* what the engine hands back for a point it cannot transform: HUGE_VAL
HugeVal == 0 - 1
InfCoord == <<HugeVal, HugeVal, HugeVal, HugeVal>>

\* lastErrno := C.proj_errno_reset(pj.pj): the register is cleared
ErrnoKept(c) == errno
ErrnoReset(c) == [errno EXCEPT ![c] = 0]

\* defer C.proj_errno_restore(pj.pj, lastErrno): the register gets the
\* saved value back.  For a saved value of 0 the engine either writes 0 or
\* returns without writing (PROJ documents the latter); both are kept.
ErrnoRestore(now, lastErrno) ==
    IF lastErrno = 0 THEN {now, 0} ELSE {lastErrno}

\* the part of a call record every operation on a PJ p has: the context to
\* lock, the errno register when the call started, the saved errno
OnPJ(p) == [p |-> p, plan |-> <<pjs[p].context>>,
            pre |-> errno[pjs[p].context], lastErrno |-> 0]

\* the context of the PJ the goroutine t works on
Owner(t) == pjs[call[t].p].context

----------------------------------------------------------------------------
(* PJ.Trans *)

\* if errno != 0 { return Coord{}, newError(errno) }; return pjCoord, nil
TransResultKeep(pjCoord, e) ==
    IF e # 0 THEN [val |-> pjCoord, err |-> newError(e)]
             ELSE [val |-> pjCoord, err |-> NilErr]

TransResult(pjCoord, e) ==
    IF e # 0 THEN [val |-> ZeroCoord, err |-> newError(e)]
             ELSE [val |-> pjCoord, err |-> NilErr]

\* the previous call of goroutine t was a Trans on p that returned an error
FailedTransBefore(t, p) ==
    ret[t].op = "Trans" /\ ret[t].p = p /\ ret[t].err # NilErr

Trans(t, p, direction, coord) ==
    /\ Enter(t, pjs[p].context,
             [op |-> "Trans", direction |-> direction, coord |-> coord,
              after |-> FailedTransBefore(t, p)] @@ OnPJ(p))
    /\ UNCHANGED <<pjContext, ctxFreed, pjs, errno, native, gc>>

\* lastErrno := C.proj_errno_reset(pj.pj); C.proj_trans(pj.pj, ...) is called
TransBodyOf(t, op) ==
    /\ pc[t] = "body" /\ call[t].op = op
    /\ call' = [call EXCEPT ![t].lastErrno = errno[Owner(t)]]
    /\ errno' = ErrnoReset(Owner(t))
    /\ Issue(t, NativeCall("proj_trans", NoArg, <<pjs[call[t].p].pj>>))
    /\ UNCHANGED <<mutex, pjContext, ctxFreed, pjs, held, ret, gc>>

TransBody(t) == TransBodyOf(t, "Trans")

\* the engine transforms the coordinate or fails, and may raise an errno
TransNativeOf(t, op) ==
    /\ pc[t] = "native" /\ call[t].op = op
    /\ \E failed \in BOOLEAN, nset \in Errnos :
         /\ Finish(t, [done |-> TRUE, nset |-> nset,
                       pjCoord |-> IF failed THEN InfCoord
                                   ELSE Engine(call[t].direction, call[t].coord)])
         /\ errno' = Raise(Owner(t), nset)
    /\ UNCHANGED <<mutex, pjContext, ctxFreed, pjs, call, held, ret, gc>>

TransNative(t) == TransNativeOf(t, "Trans")

\* errno is read, the result is built, the deferred restore and unlock run
TransReturn(t) ==
    /\ pc[t] = "after" /\ call[t].op = "Trans"
    /\ \E e \in ErrnoRead(Owner(t), native[t].ok) :
         \E restored \in ErrnoRestore(errno[Owner(t)], call[t].lastErrno) :
           /\ errno' = [errno EXCEPT ![Owner(t)] = restored]
           /\ Return(t, [op |-> "Trans", p |-> call[t].p]
                        @@ TransResult(native[t].out.pjCoord, e))
    /\ UNCHANGED <<pjContext, ctxFreed, pjs, gc>>

----------------------------------------------------------------------------
(* PJ.TransFloat64Slice *)

\* var coord Coord; copy(coord[:], float64Slice)
CopyIn(float64Slice) ==
    [j \in 1..4 |-> IF j <= Len(float64Slice) THEN float64Slice[j] ELSE 0]

\* copy(float64Slice, transCoord[:]) (Whole: the slice becomes the Coord)
CopyOutWhole(float64Slice, transCoord) == transCoord
CopyOut(float64Slice, transCoord) ==
    [j \in 1..Len(float64Slice) |->
        IF j <= 4 THEN transCoord[j] ELSE float64Slice[j]]

\* a nil slice
NilSlice == <<>>

TransFloat64Slice(t, p, direction, float64Slice) ==
    /\ Enter(t, pjs[p].context,
             [op |-> "TransFloat64Slice", direction |-> direction,
              float64Slice |-> float64Slice, coord |-> CopyIn(float64Slice)]
             @@ OnPJ(p))
    /\ UNCHANGED <<pjContext, ctxFreed, pjs, errno, native, gc>>

\* the Trans it calls
TransFloat64SliceBody(t) == TransBodyOf(t, "TransFloat64Slice")
TransFloat64SliceNative(t) == TransNativeOf(t, "TransFloat64Slice")

\* if err != nil { return nil, err }; copy back; return float64Slice, nil
TransFloat64SliceReturn(t) ==
    /\ pc[t] = "after" /\ call[t].op = "TransFloat64Slice"
    /\ \E e \in ErrnoRead(Owner(t), native[t].ok) :
         \E restored \in ErrnoRestore(errno[Owner(t)], call[t].lastErrno) :
           LET r == TransResult(native[t].out.pjCoord, e)
           IN /\ errno' = [errno EXCEPT ![Owner(t)] = restored]
              /\ Return(t, [op |-> "TransFloat64Slice",
                            val |-> IF r.err # NilErr THEN NilSlice
                                    ELSE CopyOut(call[t].float64Slice, r.val),
                            err |-> r.err])
    /\ UNCHANGED <<pjContext, ctxFreed, pjs, gc>>

----------------------------------------------------------------------------
(* PJ.TransArray and PJ.TransFloat64Slices *)

\* sequences over S of length 0 .. n
Seqs(S, n) == UNION {[1..k -> S] : k \in 0..n}

\* if len(coords) == 0 { return nil }
TransArrayEmptyNever(coords) == FALSE
TransArrayEmpty(coords) == Len(coords) = 0

\* if errno := int(C.proj_trans_array(...)); errno != 0 { return newError(errno) }
TransArrayResult(e) == IF e # 0 THEN newError(e) ELSE NilErr

\* Float64SlicesToCoords: every slice is copied into a Coord, missing
\* ordinates are 0 and ordinates beyond the fourth are left out
Float64SliceToCoord(slice) ==
    [j \in 1..4 |-> IF j <= Len(slice) THEN slice[j] ELSE 0]
Float64SlicesToCoords(slices) ==
    [i \in 1..Len(slices) |-> Float64SliceToCoord(slices[i])]

\* for i, coord := range coords { copy(float64Slices[i], coord[:]) }
CopyBack(slices, coords) ==
    [i \in 1..Len(slices) |-> CopyOut(slices[i], coords[i])]

\* TransFloat64Slices after its TransArray: if err != nil { return err },
\* else the copy-back loop (Always: the loop runs before the error test)
TransFloat64SlicesResultAlways(float64Slices, coords, err) ==
    CopyBack(float64Slices, coords)
TransFloat64SlicesResult(float64Slices, coords, err) ==
    IF err # NilErr THEN float64Slices ELSE CopyBack(float64Slices, coords)

\* TransArray on coords, called directly (from = "TransArray") or by
\* TransFloat64Slices on the coordinates it made of slices
TransArrayCall(t, p, direction, coords, from, slices) ==
    \/ /\ TransArrayEmpty(coords)
       /\ ReturnAtOnce(t, [op |-> from, n |-> Len(coords), coords |-> coords,
                           slices |-> slices, err |-> NilErr])
    \/ /\ ~TransArrayEmpty(coords)
       /\ Enter(t, pjs[p].context,
                [op |-> "TransArray", from |-> from, direction |-> direction,
                 coords |-> coords, slices |-> slices] @@ OnPJ(p))
       /\ UNCHANGED <<pjContext, ctxFreed, pjs, errno, native, gc>>

TransArray(t, p, direction, coords) ==
    TransArrayCall(t, p, direction, coords, "TransArray", <<>>)

TransFloat64Slices(t, p, direction, float64Slices) ==
    TransArrayCall(t, p, direction, Float64SlicesToCoords(float64Slices),
                   "TransFloat64Slices", float64Slices)

\* errno is reset, then &coords[0] is taken (a run-time panic for an empty
\* slice) and C.proj_trans_array is called
TransArrayBody(t) ==
    /\ pc[t] = "body" /\ call[t].op = "TransArray"
    /\ IF Len(call[t].coords) = 0
       THEN Panic(t, [op |-> call[t].from, n |-> 0])
       ELSE /\ call' = [call EXCEPT ![t].lastErrno = errno[Owner(t)]]
            /\ errno' = ErrnoReset(Owner(t))
            /\ Issue(t, NativeCall("proj_trans_array", NoArg, <<pjs[call[t].p].pj>>))
            /\ UNCHANGED <<mutex, pjContext, ctxFreed, pjs, held, ret, gc>>

\* the engine transforms the coordinates in place, those it cannot
\* transform become HUGE_VAL, and hands back an error number
TransArrayNative(t) ==
    /\ pc[t] = "native" /\ call[t].op = "TransArray"
    /\ \E bad \in SUBSET (1..Len(call[t].coords)), e \in Errnos :
         /\ Finish(t, [done |-> TRUE, errno |-> e,
                       coords |-> [i \in 1..Len(call[t].coords) |->
                                     IF i \in bad THEN InfCoord
                                     ELSE Engine(call[t].direction, call[t].coords[i])]])
         /\ errno' = Raise(Owner(t), e)
    /\ UNCHANGED <<mutex, pjContext, ctxFreed, pjs, call, held, ret, gc>>

\* TransArray returns; TransFloat64Slices hands its error on or copies the
\* coordinates back into the slices
TransArrayReturn(t) ==
    /\ pc[t] = "after" /\ call[t].op = "TransArray"
    /\ \E restored \in ErrnoRestore(errno[Owner(t)], call[t].lastErrno) :
         LET err == TransArrayResult(native[t].out.errno)
             coords == native[t].out.coords
         IN /\ errno' = [errno EXCEPT ![Owner(t)] = restored]
            /\ Return(t, [op |-> call[t].from, n |-> Len(coords), coords |-> coords,
                          slices |-> IF call[t].from = "TransFloat64Slices"
                                     THEN TransFloat64SlicesResult(
                                              call[t].slices, coords, err)
                                     ELSE call[t].slices,
                          err |-> err])
    /\ UNCHANGED <<pjContext, ctxFreed, pjs, gc>>

----------------------------------------------------------------------------
(* PJ.TransBounds *)

TransBounds(t, p, direction, bounds, densifyPoints) ==
    /\ Enter(t, pjs[p].context,
             [op |-> "TransBounds", direction |-> direction, bounds |-> bounds,
              densifyPoints |-> densifyPoints] @@ OnPJ(p))
    /\ UNCHANGED <<pjContext, ctxFreed, pjs, errno, native, gc>>

\* C.proj_trans_bounds(pj.context.pjContext, pj.pj, ...) is called; errno
\* is neither saved nor reset
TransBoundsBody(t) ==
    /\ pc[t] = "body" /\ call[t].op = "TransBounds"
    /\ Issue(t, NativeCall("proj_trans_bounds", pjContext[Owner(t)],
                           <<pjs[call[t].p].pj>>))
    /\ UNCHANGED <<mutex, pjContext, ctxFreed, pjs, errno, call, held, ret, gc>>

\* the engine reports success and fills in the bounds, or reports failure
TransBoundsNative(t) ==
    /\ pc[t] = "native" /\ call[t].op = "TransBounds"
    /\ \E success \in BOOLEAN, nset \in Errnos :
         /\ Finish(t, [done |-> TRUE, success |-> success, nset |-> nset,
                       transBounds |-> IF success
                                       THEN Engine(call[t].direction, call[t].bounds)
                                       ELSE InfCoord])
         /\ errno' = Raise(Owner(t), nset)
    /\ UNCHANGED <<mutex, pjContext, ctxFreed, pjs, call, held, ret, gc>>

\* == 0 { return Bounds{}, newError(proj_errno) }; return transBounds, nil
TransBoundsResult(success, transBounds, e) ==
    IF ~success THEN [val |-> ZeroCoord, err |-> newError(e)]
                ELSE [val |-> transBounds, err |-> NilErr]

TransBoundsReturn(t) ==
    /\ pc[t] = "after" /\ call[t].op = "TransBounds"
    /\ \E e \in ErrnoRead(Owner(t), native[t].ok) :
         Return(t, [op |-> "TransBounds", p |-> call[t].p]
                   @@ TransBoundsResult(native[t].out.success,
                                        native[t].out.transBounds, e))
    /\ UNCHANGED <<pjContext, ctxFreed, pjs, errno, gc>>

----------------------------------------------------------------------------
(* PJ.TransGeneric and PJ.TransFlatCoords *)

\* a pointer into the caller's buffer is the index of the element it
\* points at (from 0), or Null
Null == 0 - 1

Max2(a, b) == IF a >= b THEN a ELSE b
\* max(nx, ny, nz, nm)
Max4(g) == Max2(Max2(g.nx, g.ny), Max2(g.nz, g.nm))
Min2(a, b) == IF a <= b THEN a ELSE b

\* != max(nx, ny, nz, nm) { return newError(proj_errno) }; return nil
TransGenericResultNonZero(count, g, e) ==
    IF count = 0 THEN newError(e) ELSE NilErr

TransGenericResult(count, g, e) ==
    IF count # Max4(g) THEN newError(e) ELSE NilErr

\* the buffer elements the engine works on when it processes count points:
\* point k of an axis is stride bytes, stride / 8 elements, behind point k-1
AxisElemsDense(ptr, stride, n, count) ==
    IF ptr = Null THEN {}
    ELSE {ptr + k : k \in 0..(Min2(n, count) - 1)}
AxisElems(ptr, stride, n, count) ==
    IF ptr = Null THEN {}
    ELSE {ptr + k * (stride \div 8) : k \in 0..(Min2(n, count) - 1)}
Addressed(g, count) ==
    AxisElems(g.x, g.sx, g.nx, count) \cup AxisElems(g.y, g.sy, g.ny, count)
    \cup AxisElems(g.z, g.sz, g.nz, count) \cup AxisElems(g.m, g.sm, g.nm, count)
\* the buffer after the engine has transformed the elements it works on
Transformed(buf, g, count, direction) ==
    [i \in 1..Len(buf) |-> IF i - 1 \in Addressed(g, count)
                           THEN EngineVal(direction, buf[i]) ELSE buf[i]]

\* in: the arguments of the caller that marshalled g (none for a direct call)
TransGenericCall(t, p, direction, g, buf, from, in) ==
    /\ Enter(t, pjs[p].context,
             [op |-> "TransGeneric", from |-> from, direction |-> direction,
              g |-> g, buf |-> buf, in |-> in] @@ OnPJ(p))
    /\ UNCHANGED <<pjContext, ctxFreed, pjs, errno, native, gc>>

TransGeneric(t, p, direction, g, buf) ==
    TransGenericCall(t, p, direction, g, buf, "TransGeneric", <<>>)

\* lastErrno := C.proj_errno_reset(pj.pj); C.proj_trans_generic is called
TransGenericBody(t) ==
    /\ pc[t] = "body" /\ call[t].op = "TransGeneric"
    /\ call' = [call EXCEPT ![t].lastErrno = errno[Owner(t)]]
    /\ errno' = ErrnoReset(Owner(t))
    /\ Issue(t, NativeCall("proj_trans_generic", NoArg, <<pjs[call[t].p].pj>>)
                @@ [g |-> call[t].g])
    /\ UNCHANGED <<mutex, pjContext, ctxFreed, pjs, held, ret, gc>>

\* the engine processes some of the points, hands back how many, and may
\* raise an errno
TransGenericNative(t) ==
    /\ pc[t] = "native" /\ call[t].op = "TransGeneric"
    /\ \E count \in 0..Max4(call[t].g), nset \in Errnos :
         /\ Finish(t, [done |-> TRUE, count |-> count, nset |-> nset,
                       buf |-> Transformed(call[t].buf, call[t].g, count,
                                           call[t].direction)])
         /\ errno' = Raise(Owner(t), nset)
    /\ UNCHANGED <<mutex, pjContext, ctxFreed, pjs, call, held, ret, gc>>

\* the elements of buf, counted from 0
InBuf(buf) == 0..(Len(buf) - 1)

\* the engine is handed triples that address memory behind the buffer: it
\* works on whatever lies there (the step above) or the access faults and
\* the process stops
TransGenericFault(t) ==
    /\ pc[t] = "native" /\ call[t].op = "TransGeneric"
    /\ ~(Addressed(call[t].g, Max4(call[t].g)) \subseteq InBuf(call[t].buf))
    /\ pc' = [pc EXCEPT ![t] = "fault"]
    /\ UNCHANGED <<mutex, pjContext, ctxFreed, pjs, errno, call, held, native, ret, gc>>

TransGenericReturn(t) ==
    /\ pc[t] = "after" /\ call[t].op = "TransGeneric"
    /\ \E e \in ErrnoRead(Owner(t), native[t].ok) :
         \E restored \in ErrnoRestore(errno[Owner(t)], call[t].lastErrno) :
           /\ errno' = [errno EXCEPT ![Owner(t)] = restored]
           /\ Return(t, [op |-> call[t].from, n |-> Len(call[t].buf),
                         buf |-> native[t].out.buf,
                         err |-> TransGenericResult(native[t].out.count, call[t].g, e)])
    /\ UNCHANGED <<pjContext, ctxFreed, pjs, gc>>

\* if len(flatCoords) == 0 { return nil }
TransFlatCoordsEmpty(flatCoords) == Len(flatCoords) = 0

\* &flatCoords[i] for an i that is no index of the slice is a run-time panic
InRange(flatCoords, i) == 0 <= i /\ i < Len(flatCoords)

\* the statements of TransFlatCoords that panic: the division by a zero
\* stride and the addresses of elements 0, 1, zIndex and mIndex
FlatPanics(flatCoords, stride, zIndex, mIndex) ==
    \/ stride = 0
    \/ ~InRange(flatCoords, 0)
    \/ ~InRange(flatCoords, 1)
    \/ zIndex # -1 /\ ~InRange(flatCoords, zIndex)
    \/ mIndex # -1 /\ ~InRange(flatCoords, mIndex)

\* the arguments TransFlatCoords hands to TransGeneric (Elems: strides
\* counted in elements instead of bytes)
FlatArgsElems(flatCoords, stride, zIndex, mIndex) ==
    LET n == Len(flatCoords) \div stride
    IN [x |-> 0, sx |-> stride, nx |-> n,
        y |-> 1, sy |-> stride, ny |-> n,
        z |-> IF zIndex # -1 THEN zIndex ELSE Null,
        sz |-> IF zIndex # -1 THEN stride ELSE 0,
        nz |-> IF zIndex # -1 THEN n ELSE 0,
        m |-> IF mIndex # -1 THEN mIndex ELSE Null,
        sm |-> IF mIndex # -1 THEN stride ELSE 0,
        nm |-> IF mIndex # -1 THEN n ELSE 0]

FlatArgs(flatCoords, stride, zIndex, mIndex) ==
    LET n == Len(flatCoords) \div stride
    IN [x |-> 0, sx |-> 8 * stride, nx |-> n,
        y |-> 1, sy |-> 8 * stride, ny |-> n,
        z |-> IF zIndex # -1 THEN zIndex ELSE Null,
        sz |-> IF zIndex # -1 THEN 8 * stride ELSE 0,
        nz |-> IF zIndex # -1 THEN n ELSE 0,
        m |-> IF mIndex # -1 THEN mIndex ELSE Null,
        sm |-> IF mIndex # -1 THEN 8 * stride ELSE 0,
        nm |-> IF mIndex # -1 THEN n ELSE 0]

TransFlatCoords(t, p, direction, flatCoords, stride, zIndex, mIndex) ==
    \/ /\ TransFlatCoordsEmpty(flatCoords)
       /\ ReturnAtOnce(t, [op |-> "TransFlatCoords", n |-> Len(flatCoords),
                           stride |-> stride, buf |-> flatCoords, err |-> NilErr])
    \/ /\ ~TransFlatCoordsEmpty(flatCoords)
       /\ FlatPanics(flatCoords, stride, zIndex, mIndex)
       /\ pc[t] = "idle"
       /\ Panic(t, [op |-> "TransFlatCoords", n |-> Len(flatCoords)])
    \/ /\ ~TransFlatCoordsEmpty(flatCoords)
       /\ ~FlatPanics(flatCoords, stride, zIndex, mIndex)
       /\ TransGenericCall(t, p, direction,
                           FlatArgs(flatCoords, stride, zIndex, mIndex),
                           flatCoords, "TransFlatCoords",
                           [stride |-> stride, zIndex |-> zIndex, mIndex |-> mIndex])

----------------------------------------------------------------------------
(* PJ.GetSubCRS (takes no lock) and PJ.ListSubCRS (locks, then calls it) *)

\* maxTries := 100
MaxTries == 100

\* fmt.Errorf("...: %w", err)
WrapErr(err) == [kind |-> "wrapped", errno |-> err.errno]

SubCRSCall(p, index, from) ==
    [op |-> "GetSubCRS", from |-> from, c |-> pjs[p].context,
     index |-> index, result |-> <<>>] @@ OnPJ(p)

GetSubCRS(t, p, index) ==
    /\ pc[t] = "idle"
    /\ call' = [call EXCEPT ![t] = SubCRSCall(p, index, "GetSubCRS")]
    /\ pc' = [pc EXCEPT ![t] = "body"]
    /\ ret' = [ret EXCEPT ![t] = NoRet]
    /\ UNCHANGED <<mutex, pjContext, ctxFreed, pjs, errno, held, native, gc>>

ListSubCRS(t, p) ==
    /\ Enter(t, pjs[p].context, SubCRSCall(p, 0, "ListSubCRS"))
    /\ UNCHANGED <<pjContext, ctxFreed, pjs, errno, native, gc>>

\* errno is reset, C.proj_crs_get_sub_crs is called
GetSubCRSBody(t) ==
    /\ pc[t] = "body" /\ call[t].op = "GetSubCRS"
    /\ call' = [call EXCEPT ![t].lastErrno = errno[Owner(t)]]
    /\ errno' = ErrnoReset(Owner(t))
    /\ Issue(t, NativeCall("proj_crs_get_sub_crs", pjContext[Owner(t)],
                           <<pjs[call[t].p].pj>>))
    /\ UNCHANGED <<mutex, pjContext, ctxFreed, pjs, held, ret, gc>>

\* the engine hands back a handle or null, and may raise an errno
GetSubCRSNative(t) ==
    /\ pc[t] = "native" /\ call[t].op = "GetSubCRS"
    /\ \E null \in BOOLEAN, nset \in Errnos :
         /\ null \/ CanCreate
         /\ Finish(t, [done |-> TRUE, null |-> null, nset |-> nset])
         /\ errno' = Raise(Owner(t), nset)
    /\ UNCHANGED <<mutex, pjContext, ctxFreed, pjs, call, held, ret, gc>>

\* errno != 0: (nil, error); rawPj == nil: (nil, nil); else newPJ(rawPj)
GetSubCRSResult(rawPj, e) ==
    IF e # 0 THEN [obj |-> NilPJ, err |-> WrapErr(newError(e))]
    ELSE IF rawPj = NilPJ THEN [obj |-> NilPJ, err |-> NilErr]
    ELSE [obj |-> rawPj, err |-> NilErr]

\* fmt.Errorf("...: %w", err) builds its text from err.Error(); an *Error
\* has only its context and its errno and renders the text of the errno
\* with the errnoString of its context
ErrorError(err) == err.kind = "Error"

\* Context.errnoString: c.Lock(), proj_context_errno_string, c.Unlock().
\* It goes through when the mutex of c is free and never when the calling
\* goroutine holds it itself
errnoStringFree(c) == mutex[c] = NoThread
errnoStringSelf(t, c) == mutex[c] = t

\* GetSubCRS returns to its caller; ListSubCRS returns the error, returns
\* its list at the first nil, or appends and goes on with the next index.
\* With errno != 0 the error is rendered first: under the lock of
\* ListSubCRS the goroutine blocks in the Lock of errnoString
GetSubCRSReturn(t) ==
    /\ pc[t] = "after" /\ call[t].op = "GetSubCRS"
    /\ \E e \in ErrnoRead(Owner(t), native[t].ok) :
        IF e # 0 /\ ErrorError(newError(e)) /\ errnoStringSelf(t, Owner(t))
        THEN /\ call' = [call EXCEPT ![t].plan = Append(@, Owner(t))]
             /\ pc' = [pc EXCEPT ![t] = "lock"]
             /\ native' = [native EXCEPT ![t] = NoNative]
             /\ UNCHANGED <<mutex, pjs, errno, held, ret, gc>>
        ELSE
         /\ e # 0 /\ ErrorError(newError(e)) => errnoStringFree(Owner(t))
         /\ \E restored \in ErrnoRestore(errno[Owner(t)], call[t].lastErrno) :
           LET rawPj == IF native[t].out.null THEN NilPJ ELSE Len(pjs) + 1
               r == GetSubCRSResult(rawPj, e)
           IN /\ errno' = [errno EXCEPT ![Owner(t)] = restored]
              /\ pjs' = IF r.obj = NilPJ THEN pjs
                        ELSE Append(pjs, PJObject(NewOwner(t), r.obj))
              /\ IF call[t].from = "GetSubCRS"
                 THEN Return(t, [op |-> "GetSubCRS"] @@ r)
                 ELSE IF r.err # NilErr
                 THEN Return(t, [op |-> "ListSubCRS", list |-> <<>>, err |-> r.err])
                 ELSE IF r.obj = NilPJ
                 THEN Return(t, [op |-> "ListSubCRS", list |-> call[t].result,
                                 err |-> NilErr])
                 ELSE IF call[t].index + 1 >= MaxTries
                 THEN Return(t, [op |-> "ListSubCRS", list |-> <<>>,
                                 err |-> [kind |-> "aborted", errno |-> 0]])
                 ELSE /\ call' = [call EXCEPT ![t].index = @ + 1,
                                              ![t].result = Append(@, r.obj)]
                      /\ pc' = [pc EXCEPT ![t] = "body"]
                      /\ native' = [native EXCEPT ![t] = NoNative]
                      /\ UNCHANGED <<mutex, held, ret, gc>>
    /\ UNCHANGED <<pjContext, ctxFreed, gc>>

----------------------------------------------------------------------------
(* PJ.Identify: identifyRaw under the lock, then readPjList without it *)

\* the native lists of one proj_identify call: whether the engine handed
\* back the PJ_OBJ_LIST and the confidence array
NoLists == [list |-> FALSE, conf |-> FALSE]

\* how often Identify destroys each of them when it returns from
\* identifyRaw with an error: the two destroys are deferred only after it
NoDestroys(lists) == [list |-> 0, conf |-> 0]
\* defer C.proj_list_destroy(objList); defer
\* C.proj_int_list_destroy(confidenceList): once each, nothing for null
DeferredDestroys(lists) ==
    [list |-> IF lists.list THEN 1 ELSE 0, conf |-> IF lists.conf THEN 1 ELSE 0]

\* Identify returns r; the lists of its native call and the destroys it
\* made are recorded with the result
IdentifyResult(r, lists, destroyed) ==
    [op |-> "Identify", lists |-> lists, destroyed |-> destroyed] @@ r

\* result = append(result, newPj) in readPjList: the PJ made of the item
\* read last comes last (Front: it is put first)
AppendMatchFront(result, newPj) == <<newPj>> \o result
AppendMatch(result, newPj) == Append(result, newPj)

\* the confidences the engine gives its candidates
Confidences == {70, 100}

\* IdentifyMatch{PJ: match, Confidence: int(confidenceSlice[i])}
IdentifyMatches(matches, confidenceSlice) ==
    [i \in 1..Len(matches) |->
        [PJ |-> matches[i], Confidence |-> confidenceSlice[i]]]

IdentifyCall(p) ==
    [op |-> "Identify", c |-> pjs[p].context, stage |-> "raw",
     count |-> 0, i |-> 0, matches |-> <<>>, lists |-> NoLists,
     confs |-> <<>>, items |-> <<>>] @@ OnPJ(p)

Identify(t, p) ==
    /\ Enter(t, pjs[p].context, IdentifyCall(p))
    /\ UNCHANGED <<pjContext, ctxFreed, pjs, errno, native, gc>>

\* identifyRaw: errno is reset, C.proj_identify is called
IdentifyRawBody(t) ==
    /\ pc[t] = "body" /\ call[t].op = "Identify"
    /\ call' = [call EXCEPT ![t].lastErrno = errno[Owner(t)]]
    /\ errno' = ErrnoReset(Owner(t))
    /\ Issue(t, NativeCall("proj_identify", pjContext[Owner(t)],
                           <<pjs[call[t].p].pj>>))
    /\ UNCHANGED <<mutex, pjContext, ctxFreed, pjs, held, ret, gc>>

\* the engine hands back a list of count candidates with their confidences
\* (or null for either), and may raise an errno
IdentifyRawNative(t) ==
    /\ pc[t] = "native" /\ call[t].op = "Identify" /\ call[t].stage = "raw"
    /\ \E count \in 0..MaxCount, nset \in Errnos, list, conf \in BOOLEAN :
       \E confs \in [1..count -> Confidences] :
         /\ count > 0 => list /\ conf
         /\ Finish(t, [done |-> TRUE, count |-> count, nset |-> nset,
                       lists |-> [list |-> list, conf |-> conf],
                       confs |-> confs])
         /\ errno' = Raise(Owner(t), nset)
    /\ UNCHANGED <<mutex, pjContext, ctxFreed, pjs, call, held, ret, gc>>

\* identifyRaw returns: with an error Identify returns it wrapped; else the
\* context is unlocked and readPjList starts with proj_list_get_count
IdentifyRawReturn(t) ==
    /\ pc[t] = "after" /\ call[t].op = "Identify" /\ call[t].stage = "raw"
    /\ \E e \in ErrnoRead(Owner(t), native[t].ok) :
         \E restored \in ErrnoRestore(errno[Owner(t)], call[t].lastErrno) :
           /\ errno' = [errno EXCEPT ![Owner(t)] = restored]
           /\ IF e # 0
              THEN Return(t, IdentifyResult(
                                [list |-> <<>>, err |-> WrapErr(newError(e))],
                                native[t].out.lists,
                                NoDestroys(native[t].out.lists)))
              ELSE /\ mutex' = Unlock(t)
                   /\ held' = [held EXCEPT ![t] = <<>>]
                   /\ call' = [call EXCEPT ![t].stage = "list",
                                           ![t].count = native[t].out.count,
                                           ![t].lists = native[t].out.lists,
                                           ![t].confs = native[t].out.confs]
                   /\ native' = [native EXCEPT ![t] = NoNative]
                   /\ pc' = [pc EXCEPT ![t] = "list"]
                   /\ UNCHANGED <<ret, gc>>
    /\ UNCHANGED <<pjContext, ctxFreed, pjs, gc>>

\* readPjList: after the last item Identify returns its matches; else
\* projListGet resets errno and calls C.proj_list_get
IdentifyItemBody(t) ==
    /\ pc[t] = "list" /\ call[t].op = "Identify"
    /\ IF call[t].i >= call[t].count
       THEN /\ Return(t, IdentifyResult(
                            [list |-> IdentifyMatches(call[t].matches,
                                                      call[t].confs),
                             err |-> NilErr],
                            call[t].lists, DeferredDestroys(call[t].lists)))
            /\ UNCHANGED <<pjContext, ctxFreed, pjs, errno, gc>>
       ELSE /\ call' = [call EXCEPT ![t].lastErrno = errno[Owner(t)]]
            /\ errno' = ErrnoReset(Owner(t))
            /\ Issue(t, NativeCall("proj_list_get", pjContext[Owner(t)], <<>>)
                        @@ [index |-> call[t].i])
            /\ UNCHANGED <<mutex, pjContext, ctxFreed, pjs, held, ret, gc>>

\* the engine hands back the item or null, and may raise an errno
IdentifyItemNative(t) ==
    /\ pc[t] = "native" /\ call[t].op = "Identify" /\ call[t].stage = "list"
    /\ \E null \in BOOLEAN, nset \in Errnos :
         /\ null \/ CanCreate
         /\ Finish(t, [done |-> TRUE, null |-> null, nset |-> nset])
         /\ errno' = Raise(Owner(t), nset)
    /\ UNCHANGED <<mutex, pjContext, ctxFreed, pjs, call, held, ret, gc>>

\* projListGet returns; readPjList wraps the item with
\* referencePj.context.newPJ (which reads the context's errno, ce, after
\* the restore) or gives up with the error, wrapped twice.  items keeps,
\* for every PJ of matches, the index of the list item it was made of
IdentifyItemReturn(t) ==
    /\ pc[t] = "after" /\ call[t].op = "Identify" /\ call[t].stage = "list"
    /\ \E e \in ErrnoRead(Owner(t), native[t].ok) :
         \E restored \in ErrnoRestore(errno[Owner(t)], call[t].lastErrno) :
           \E ce \in (IF EngineOk(pjContext[Owner(t)]) THEN {restored} ELSE Errnos) :
           LET rawPj == IF native[t].out.null THEN NilPJ ELSE Len(pjs) + 1
               r == IF e # 0 THEN [obj |-> NilPJ, err |-> newError(e)]
                             ELSE newPJ(call[t].c, rawPj, ce)
           IN /\ errno' = [errno EXCEPT ![Owner(t)] = restored]
              /\ pjs' = IF r.obj = NilPJ THEN pjs
                        ELSE Append(pjs, PJObject(NewOwner(t), r.obj))
              /\ IF r.err # NilErr
                 THEN Return(t, IdentifyResult(
                                   [list |-> <<>>, err |-> WrapErr(WrapErr(r.err))],
                                   call[t].lists, DeferredDestroys(call[t].lists)))
                 ELSE /\ call' = [call EXCEPT
                                    ![t].i = @ + 1,
                                    ![t].matches = AppendMatch(@, r.obj),
                                    ![t].items = AppendMatch(@, native[t].index)]
                      /\ pc' = [pc EXCEPT ![t] = "list"]
                      /\ native' = [native EXCEPT ![t] = NoNative]
                      /\ UNCHANGED <<mutex, held, ret, gc>>
    /\ UNCHANGED <<pjContext, ctxFreed, gc>>

----------------------------------------------------------------------------
(* Context.SetSearchPaths *)

\* cPaths[i] = C.CString(path): the i-th native string, here the number i
CStrings(paths) == [i \in 1..Len(paths) |-> i]

\* defer C.free(unsafe.Pointer(cPaths[i])) in the loop: the argument is
\* evaluated when the defer statement runs, so the deferred calls free
\* cPaths[1], ..., cPaths[n] (Last: all of them free the last string)
DeferredFreesLast(cPaths) == [i \in 1..Len(cPaths) |-> cPaths[Len(cPaths)]]
DeferredFrees(cPaths) == [i \in 1..Len(cPaths) |-> cPaths[i]]

\* how often every native string has been freed once the deferred calls
\* have run
RunDeferred(cPaths, deferred) ==
    [i \in 1..Len(cPaths) |->
        Cardinality({k \in 1..Len(deferred) : deferred[k] = cPaths[i]})]

\* if len(paths) > 0 { pathPtr = unsafe.Pointer(&cPaths[0]) }
PathPtr(paths) == IF Len(paths) > 0 THEN 0 ELSE Null

SetSearchPaths(t, c, paths) ==
    /\ Enter(t, c, [op |-> "SetSearchPaths", c |-> c, paths |-> paths,
                    plan |-> <<c>>, cPaths |-> <<>>, deferred |-> <<>>])
    /\ UNCHANGED <<pjContext, ctxFreed, pjs, errno, native, gc>>

\* the strings are allocated and their frees deferred, then
\* C.proj_context_set_search_paths is called
SetSearchPathsBody(t) ==
    /\ pc[t] = "body" /\ call[t].op = "SetSearchPaths"
    /\ LET cPaths == CStrings(call[t].paths)
       IN /\ call' = [call EXCEPT ![t].cPaths = cPaths,
                                  ![t].deferred = DeferredFrees(cPaths)]
          /\ Issue(t, NativeCall("proj_context_set_search_paths",
                                 pjContext[call[t].c], <<>>)
                      @@ [count |-> Len(cPaths), ptr |-> PathPtr(call[t].paths),
                          freed |-> [i \in 1..Len(cPaths) |-> 0]])
    /\ UNCHANGED <<mutex, pjContext, ctxFreed, pjs, errno, held, ret, gc>>

\* the native call has returned: the deferred frees and the deferred
\* Unlock run
SetSearchPathsReturn(t) ==
    /\ pc[t] = "native" /\ call[t].op = "SetSearchPaths"
    /\ Return(t, [op |-> "SetSearchPaths", n |-> Len(call[t].paths),
                  freed |-> RunDeferred(call[t].cPaths, call[t].deferred)])
    /\ UNCHANGED <<pjContext, ctxFreed, pjs, errno, gc>>

----------------------------------------------------------------------------
(* PJ.GetType and mapPJTypeFromC *)

\* the switch of mapPJTypeFromC: the native PJ_TYPE of every case and the
\* PJType constant the case returns
PJTypeCases ==
    <<
       <<"PJ_TYPE_UNKNOWN", "UNKNOWN">>,
       <<"PJ_TYPE_ELLIPSOID", "ELLIPSOID">>,
       <<"PJ_TYPE_PRIME_MERIDIAN", "PRIME_MERIDIAN">>,
       <<"PJ_TYPE_GEODETIC_REFERENCE_FRAME", "GEODETIC_REFERENCE_FRAME">>,
       <<"PJ_TYPE_DYNAMIC_GEODETIC_REFERENCE_FRAME", "DYNAMIC_GEODETIC_REFERENCE_FRAME">>,
       <<"PJ_TYPE_VERTICAL_REFERENCE_FRAME", "VERTICAL_REFERENCE_FRAME">>,
       <<"PJ_TYPE_DYNAMIC_VERTICAL_REFERENCE_FRAME", "DYNAMIC_VERTICAL_REFERENCE_FRAME">>,
       <<"PJ_TYPE_DATUM_ENSEMBLE", "DATUM_ENSEMBLE">>,
       <<"PJ_TYPE_CRS", "CRS">>,
       <<"PJ_TYPE_GEODETIC_CRS", "GEODETIC_CRS">>,
       <<"PJ_TYPE_GEOCENTRIC_CRS", "GEOCENTRIC_CRS">>,
       <<"PJ_TYPE_GEOGRAPHIC_CRS", "GEOGRAPHIC_CRS">>,
       <<"PJ_TYPE_GEOGRAPHIC_2D_CRS", "GEOGRAPHIC_2D_CRS">>,
       <<"PJ_TYPE_GEOGRAPHIC_3D_CRS", "GEOGRAPHIC_3D_CRS">>,
       <<"PJ_TYPE_VERTICAL_CRS", "VERTICAL_CRS">>,
       <<"PJ_TYPE_PROJECTED_CRS", "PROJECTED_CRS">>,
       <<"PJ_TYPE_COMPOUND_CRS", "COMPOUND_CRS">>,
       <<"PJ_TYPE_TEMPORAL_CRS", "TEMPORAL_CRS">>,
       <<"PJ_TYPE_ENGINEERING_CRS", "ENGINEERING_CRS">>,
       <<"PJ_TYPE_BOUND_CRS", "BOUND_CRS">>,
       <<"PJ_TYPE_OTHER_CRS", "OTHER_CRS">>,
       <<"PJ_TYPE_CONVERSION", "CONVERSION">>,
       <<"PJ_TYPE_TRANSFORMATION", "TRANSFORMATION">>,
       <<"PJ_TYPE_CONCATENATED_OPERATION", "CONCATENATED_OPERATION">>,
       <<"PJ_TYPE_OTHER_COORDINATE_OPERATION", "OTHER_COORDINATE_OPERATION">>,
       <<"PJ_TYPE_TEMPORAL_DATUM", "TEMPORAL_DATUM">>,
       <<"PJ_TYPE_ENGINEERING_DATUM", "ENGINEERING_DATUM">>,
       <<"PJ_TYPE_PARAMETRIC_DATUM", "PARAMETRIC_DATUM">>,
       <<"PJ_TYPE_DERIVED_PROJECTED_CRS", "DERIVED_PROJECTED_CRS">>,
       <<"PJ_TYPE_COORDINATE_METADATA", "COORDINATE_METADATA">>
    >>

\* the native type values that are a case of the switch
KnownCTypes == {PJTypeCases[i][1] : i \in 1..Len(PJTypeCases)}
\* the values the engine may hand back: those, and values of a newer engine
CTypes == KnownCTypes \cup {"PJ_TYPE_30", "PJ_TYPE_31"}

\* fmt.Errorf without a wrapped error: an error that is no *Error
PlainErr(what) == [kind |-> what, errno |-> 0]

\* default: return "", fmt.Errorf("unexpected PJ_TYPE: %d", cType)
\* (Default: the default case answers PJ_TYPE_UNKNOWN)
mapPJTypeFromCDefault(cType) ==
    IF cType \in KnownCTypes
    THEN [val |-> PJTypeCases[CHOOSE i \in 1..Len(PJTypeCases) :
                                 PJTypeCases[i][1] = cType][2],
          err |-> NilErr]
    ELSE [val |-> "UNKNOWN", err |-> NilErr]

mapPJTypeFromC(cType) ==
    IF cType \in KnownCTypes
    THEN [val |-> PJTypeCases[CHOOSE i \in 1..Len(PJTypeCases) :
                                 PJTypeCases[i][1] = cType][2],
          err |-> NilErr]
    ELSE [val |-> "", err |-> PlainErr("unexpected PJ_TYPE")]

GetType(t, p) ==
    /\ Enter(t, pjs[p].context, [op |-> "GetType"] @@ OnPJ(p))
    /\ UNCHANGED <<pjContext, ctxFreed, pjs, errno, native, gc>>

GetTypeBody(t) ==
    /\ pc[t] = "body" /\ call[t].op = "GetType"
    /\ Issue(t, NativeCall("proj_get_type", NoArg, <<pjs[call[t].p].pj>>))
    /\ UNCHANGED <<mutex, pjContext, ctxFreed, pjs, errno, call, held, ret, gc>>

\* the engine hands back a type value
GetTypeNative(t) ==
    /\ pc[t] = "native" /\ call[t].op = "GetType"
    /\ \E cType \in CTypes : Finish(t, [done |-> TRUE, pjType |-> cType])
    /\ UNCHANGED <<mutex, pjContext, ctxFreed, pjs, errno, call, held, ret, gc>>

\* return mapPJTypeFromC(pjType)
GetTypeReturn(t) ==
    /\ pc[t] = "after" /\ call[t].op = "GetType"
    /\ Return(t, [op |-> "GetType"] @@ mapPJTypeFromC(native[t].out.pjType))
    /\ UNCHANGED <<pjContext, ctxFreed, pjs, errno, gc>>

----------------------------------------------------------------------------
(* PJ.AsWkt and PJ.AsProjJson *)

\* the texts the engine exports
ExportText(fn) == IF fn = "proj_as_wkt" THEN "PROJCRS[...]" ELSE "{...}"

\* C.GoString: the copied text, the empty string for a null pointer
GoString(cstr) == IF cstr = NullString THEN "" ELSE cstr

\* the exports start alike: lock, errno reset, native export call
AsWkt(t, p) ==
    /\ Enter(t, pjs[p].context,
             [op |-> "AsWkt", fn |-> "proj_as_wkt"] @@ OnPJ(p))
    /\ UNCHANGED <<pjContext, ctxFreed, pjs, errno, native, gc>>

AsProjJson(t, p) ==
    /\ Enter(t, pjs[p].context,
             [op |-> "AsProjJson", fn |-> "proj_as_projjson"] @@ OnPJ(p))
    /\ UNCHANGED <<pjContext, ctxFreed, pjs, errno, native, gc>>

ExportBody(t) ==
    /\ pc[t] = "body" /\ call[t].op \in {"AsWkt", "AsProjJson"}
    /\ call' = [call EXCEPT ![t].lastErrno = errno[Owner(t)]]
    /\ errno' = ErrnoReset(Owner(t))
    /\ Issue(t, NativeCall(call[t].fn, Owner(t), <<pjs[call[t].p].pj>>))
    /\ UNCHANGED <<mutex, pjContext, ctxFreed, pjs, held, ret, gc>>

\* the engine hands back a text or null, and may raise an errno
ExportNative(t) ==
    /\ pc[t] = "native" /\ call[t].op \in {"AsWkt", "AsProjJson"}
    /\ \E null \in BOOLEAN, nset \in Errnos :
         /\ Finish(t, [done |-> TRUE, nset |-> nset,
                       text |-> IF null THEN NullString
                                ELSE ExportText(call[t].fn)])
         /\ errno' = Raise(Owner(t), nset)
    /\ UNCHANGED <<mutex, pjContext, ctxFreed, pjs, call, held, ret, gc>>

\* AsProjJson after the native call: errno, then C.GoString of the pointer
AsProjJsonResult(projjson, e) ==
    IF e # 0 THEN [val |-> "", err |-> newError(e)]
    ELSE [val |-> GoString(projjson), err |-> NilErr]

\* AsWkt after the native call: errno, then the nil check, then C.GoString
\* (NoNil: without the nil check)
AsWktResultNoNil(wkt, e) == AsProjJsonResult(wkt, e)
AsWktResult(wkt, e) ==
    IF e # 0 THEN [val |-> "", err |-> newError(e)]
    ELSE IF wkt = NullString
         THEN [val |-> "", err |-> PlainErr("projection not compatible with an export")]
         ELSE [val |-> GoString(wkt), err |-> NilErr]

\* errno is read, the result is built, the deferred restore and unlock run
ExportReturn(t) ==
    /\ pc[t] = "after" /\ call[t].op \in {"AsWkt", "AsProjJson"}
    /\ \E e \in ErrnoRead(Owner(t), native[t].ok) :
         \E restored \in ErrnoRestore(errno[Owner(t)], call[t].lastErrno) :
           /\ errno' = [errno EXCEPT ![Owner(t)] = restored]
           /\ Return(t, [op |-> call[t].op, p |-> call[t].p]
                        @@ IF call[t].op = "AsWkt"
                           THEN AsWktResult(native[t].out.text, e)
                           ELSE AsProjJsonResult(native[t].out.text, e))
    /\ UNCHANGED <<pjContext, ctxFreed, pjs, gc>>

----------------------------------------------------------------------------
(* PJ.Info, PJ.GetSRID, PJ.GetAreaOfUse: lock, native call, value *)

Getters == {"Info", "GetSRID", "GetAreaOfUse"}

GetterFn(op) ==
    CASE op = "Info" -> "proj_pj_info"
      [] op = "GetSRID" -> "proj_get_id_code"
      [] op = "GetAreaOfUse" -> "proj_get_area_of_use"

\* what the engine knows of the object h: its description, its authority
\* and code, its area of use
PJInfoOf(h) == [Description |-> <<"description", h>>]
SRIDOf(h) == [Auth |-> "EPSG", Code |-> h]
AreaOf(h) == [Name |-> <<"area", h>>]
NilArea == [Name |-> "nil"]

GetterCall(op, p) == [op |-> op] @@ OnPJ(p)

GetterBody(t) ==
    /\ pc[t] = "body" /\ call[t].op \in Getters
    /\ Issue(t, NativeCall(GetterFn(call[t].op), NoArg, <<pjs[call[t].p].pj>>))
    /\ UNCHANGED <<mutex, pjContext, ctxFreed, pjs, errno, call, held, ret, gc>>

\* the engine answers; proj_get_area_of_use also tells whether it succeeded
GetterNative(t) ==
    /\ pc[t] = "native" /\ call[t].op \in Getters
    /\ \E success \in (IF call[t].op = "GetAreaOfUse" THEN BOOLEAN ELSE {TRUE}) :
         Finish(t, [done |-> TRUE, success |-> success])
    /\ UNCHANGED <<mutex, pjContext, ctxFreed, pjs, errno, call, held, ret, gc>>

\* the value is built from the answer; GetAreaOfUse: nil if success == 0
GetterResult(op, h, success) ==
    CASE op = "Info" -> PJInfoOf(h)
      [] op = "GetSRID" -> SRIDOf(h)
      [] op = "GetAreaOfUse" -> IF success THEN AreaOf(h) ELSE NilArea

GetterReturn(t) ==
    /\ pc[t] = "after" /\ call[t].op \in Getters
    /\ Return(t, [op |-> call[t].op,
                  val |-> GetterResult(call[t].op, pjs[call[t].p].pj,
                                       native[t].out.success)])
    /\ UNCHANGED <<pjContext, ctxFreed, pjs, errno, gc>>

----------------------------------------------------------------------------
(* PJ.FullInfo: Info, IsCRS, GetType, GetAreaOfUse, then Identify and per  *)
(* match GetSRID and Info, each a call of its own                          *)

\* result := &FullPJInfo{}
EmptyFullPJInfo ==
    [PJInfo |-> [Description |-> ""], IsCrs |-> FALSE, Type |-> "",
     AreaOfUse |-> NilArea, CrsMatches |-> <<>>]
NilFullPJInfo == [PJInfo |-> "nil"]

\* IdentifyMatchInfo{SRID: m.PJ.GetSRID(), Description:
\* m.PJ.Info().Description, Confidence: m.Confidence}
\* (First: the confidence of the first match for every entry)
MatchInfoFirst(srid, info, matches, i) ==
    [SRID |-> srid, Description |-> info.Description,
     Confidence |-> matches[1].Confidence]
MatchInfo(srid, info, matches, i) ==
    [SRID |-> srid, Description |-> info.Description,
     Confidence |-> matches[i].Confidence]

FullInfo(t, p) ==
    /\ pc[t] = "idle"
    /\ call' = [call EXCEPT ![t] =
                  [op |-> "FullInfo", p |-> p, stage |-> "Info",
                   result |-> EmptyFullPJInfo, err |-> NilErr,
                   matches |-> <<>>, i |-> 0, srid |-> SRIDOf(NilPJ),
                   sub |-> NoRet]]
    /\ pc' = [pc EXCEPT ![t] = "resume"]
    /\ ret' = [ret EXCEPT ![t] = NoRet]
    /\ UNCHANGED <<mutex, pjContext, ctxFreed, pjs, errno, held, native, gc>>

\* FullInfo calls an operation that locks the context first; frame is
\* where FullInfo goes on when that operation has returned
SubCall(t, rec, frame) ==
    /\ mutex[rec.plan[1]] = NoThread
    /\ mutex' = [mutex EXCEPT ![rec.plan[1]] = t]
    /\ held' = [held EXCEPT ![t] = <<rec.plan[1]>>]
    /\ call' = [call EXCEPT ![t] = rec @@ [outer |-> frame]]
    /\ pc' = [pc EXCEPT ![t] = "body"]
    /\ UNCHANGED <<native, ret, gc>>

\* FullInfo calls IsCRS, which goes to its native call without a lock
SubCallIsCRS(t, p, frame) ==
    /\ call' = [call EXCEPT ![t] = [op |-> "IsCRS", p |-> p, outer |-> frame]]
    /\ Issue(t, NativeCall("proj_is_crs", NoArg, <<pjs[p].pj>>))
    /\ UNCHANGED <<mutex, held, ret, gc>>

\* FullInfo returns: nil and the wrapped error, or the result
FullInfoFails(t, err) ==
    Return(t, [op |-> "FullInfo", result |-> NilFullPJInfo, err |-> WrapErr(err)])
FullInfoSucceeds(t, result) ==
    Return(t, [op |-> "FullInfo", result |-> result, err |-> NilErr])

\* FullInfo goes on after the call it made has returned sub
FullInfoResume(t) ==
    /\ pc[t] = "resume" /\ call[t].op = "FullInfo"
    /\ LET f == call[t]
           sub == call[t].sub
       IN CASE f.stage = "Info" ->
                 SubCall(t, GetterCall("Info", f.p), [f EXCEPT !.stage = "IsCRS"])
            [] f.stage = "IsCRS" ->
                 SubCallIsCRS(t, f.p, [f EXCEPT !.result.PJInfo = sub.val,
                                                !.stage = "GetType"])
            [] f.stage = "GetType" ->
                 SubCall(t, [op |-> "GetType"] @@ OnPJ(f.p),
                         [f EXCEPT !.result.IsCrs = sub.val,
                                   !.stage = "GetAreaOfUse"])
            [] f.stage = "GetAreaOfUse" ->
                 SubCall(t, GetterCall("GetAreaOfUse", f.p),
                         [f EXCEPT !.result.Type = sub.val, !.err = sub.err,
                                   !.stage = "Identify"])
            [] f.stage = "Identify" ->
                 IF f.err # NilErr THEN FullInfoFails(t, f.err)
                 ELSE IF f.result.IsCrs
                 THEN SubCall(t, IdentifyCall(f.p),
                              [f EXCEPT !.result.AreaOfUse = sub.val,
                                        !.stage = "matches"])
                 ELSE FullInfoSucceeds(t, [f.result EXCEPT !.AreaOfUse = sub.val])
            [] f.stage = "matches" ->
                 IF sub.err # NilErr THEN FullInfoFails(t, sub.err)
                 ELSE IF sub.list = <<>> THEN FullInfoSucceeds(t, f.result)
                 ELSE SubCall(t, GetterCall("GetSRID", sub.list[1].PJ),
                              [f EXCEPT !.matches = sub.list, !.i = 1,
                                        !.stage = "GetSRID"])
            [] f.stage = "GetSRID" ->
                 SubCall(t, GetterCall("Info", f.matches[f.i].PJ),
                         [f EXCEPT !.srid = sub.val, !.stage = "append"])
            [] f.stage = "append" ->
                 LET result == [f.result EXCEPT !.CrsMatches =
                        Append(@, MatchInfo(f.srid, sub.val, f.matches, f.i))]
                 IN IF f.i < Len(f.matches)
                    THEN SubCall(t, GetterCall("GetSRID", f.matches[f.i + 1].PJ),
                                 [f EXCEPT !.result = result, !.i = f.i + 1,
                                           !.stage = "GetSRID"])
                    ELSE FullInfoSucceeds(t, result)
    /\ UNCHANGED <<pjContext, ctxFreed, pjs, errno, gc>>

----------------------------------------------------------------------------
(* Context.GetAuthoritiesFromDatabase and Context.GetAllCRSCodes *)

\* the string lists the engine hands back
AuthorityLists == {<<>>, <<"EPSG">>, <<"EPSG", "ESRI">>}
CodeLists == {<<>>, <<"4326">>}

\* checkError: nil if proj_context_errno is 0, else newError(errno)
checkError(e) == IF e = 0 THEN NilErr ELSE newError(e)

\* fmt.Sprintf("%s:%s", auth, code) for every code of the list
WithAuth(auth, codes) == [j \in 1..Len(codes) |-> <<auth, ":", codes[j]>>]

GetAuthoritiesFromDatabase(t, c) ==
    /\ Enter(t, c, [op |-> "GetAuthoritiesFromDatabase", c |-> c,
                    plan |-> <<c>>, pre |-> errno[c],
                    fn |-> "proj_get_authorities_from_database"])
    /\ UNCHANGED <<pjContext, ctxFreed, pjs, errno, native, gc>>

GetAllCRSCodes(t, c) ==
    /\ Enter(t, c, [op |-> "GetAllCRSCodes", c |-> c,
                    plan |-> <<c>>, pre |-> errno[c],
                    fn |-> "proj_get_authorities_from_database",
                    authorities |-> <<>>, i |-> 0, codeList |-> <<>>])
    /\ UNCHANGED <<pjContext, ctxFreed, pjs, errno, native, gc>>

\* the native database call, without a reset of errno before it
DatabaseBody(t) ==
    /\ pc[t] = "body"
    /\ call[t].op \in {"GetAuthoritiesFromDatabase", "GetAllCRSCodes"}
    /\ Issue(t, NativeCall(call[t].fn, pjContext[call[t].c], <<>>))
    /\ UNCHANGED <<mutex, pjContext, ctxFreed, pjs, errno, call, held, ret, gc>>

\* the engine hands back a list, and may raise an errno
DatabaseNative(t) ==
    /\ pc[t] = "native"
    /\ call[t].op \in {"GetAuthoritiesFromDatabase", "GetAllCRSCodes"}
    /\ \E nset \in Errnos :
       \E list \in (IF call[t].fn = "proj_get_authorities_from_database"
                    THEN AuthorityLists ELSE CodeLists) :
         /\ Finish(t, [done |-> TRUE, list |-> list, nset |-> nset])
         /\ errno' = Raise(call[t].c, nset)
    /\ UNCHANGED <<mutex, pjContext, ctxFreed, pjs, call, held, ret, gc>>

\* checkError, then the list as a Go slice
GetAuthoritiesFromDatabaseReturn(t) ==
    /\ pc[t] = "after" /\ call[t].op = "GetAuthoritiesFromDatabase"
    /\ \E e \in ErrnoRead(call[t].c, native[t].ok) :
         LET err == checkError(e)
         IN Return(t, [op |-> "GetAuthoritiesFromDatabase",
                       list |-> IF err # NilErr THEN <<>> ELSE native[t].out.list,
                       err |-> err])
    /\ UNCHANGED <<pjContext, ctxFreed, pjs, errno, gc>>

\* checkError after each native call of GetAllCRSCodes: an error is
\* wrapped with fmt.Errorf("...: %w", err), which renders it while the
\* context is locked; else the codes of the next authority are asked for,
\* or the list of all codes is returned
GetAllCRSCodesReturn(t) ==
    /\ pc[t] = "after" /\ call[t].op = "GetAllCRSCodes"
    /\ \E e \in ErrnoRead(call[t].c, native[t].ok) :
         LET err == checkError(e)
             authorities == IF call[t].i = 0 THEN native[t].out.list
                            ELSE call[t].authorities
             codeList == IF call[t].i = 0 THEN <<>>
                         ELSE call[t].codeList \o
                              WithAuth(authorities[call[t].i], native[t].out.list)
         IN IF err # NilErr /\ ErrorError(err) /\ errnoStringSelf(t, call[t].c)
            THEN /\ call' = [call EXCEPT ![t].plan = Append(@, call[t].c)]
                 /\ pc' = [pc EXCEPT ![t] = "lock"]
                 /\ native' = [native EXCEPT ![t] = NoNative]
                 /\ UNCHANGED <<mutex, held, ret, gc>>
            ELSE IF err # NilErr
            THEN Return(t, [op |-> "GetAllCRSCodes", list |-> <<>>,
                            err |-> WrapErr(err)])
            ELSE IF call[t].i >= Len(authorities)
            THEN Return(t, [op |-> "GetAllCRSCodes", list |-> codeList,
                            err |-> NilErr])
            ELSE /\ call' = [call EXCEPT
                               ![t].authorities = authorities,
                               ![t].codeList = codeList,
                               ![t].i = @ + 1,
                               ![t].fn = "proj_get_codes_from_database"]
                 /\ pc' = [pc EXCEPT ![t] = "body"]
                 /\ native' = [native EXCEPT ![t] = NoNative]
                 /\ UNCHANGED <<mutex, held, ret, gc>>
    /\ UNCHANGED <<pjContext, ctxFreed, pjs, errno, gc>>

----------------------------------------------------------------------------
(* Finalizers: runtime.SetFinalizer in NewContext and in Context.newPJ *)

\* runtime.SetFinalizer(c, (*Context).Destroy)
ContextFinalizer(c) == "Destroy"
\* runtime.SetFinalizer(pj, (*PJ).Destroy) (None: newPJ sets no finalizer)
PJFinalizerNone(p) == "none"
PJFinalizer(p) == "Destroy"

\* the program drops its last reference to a PJ or to a Context
DropPJ(t, p) ==
    /\ pc[t] = "idle" /\ p \notin gc.pjDropped
    /\ gc' = [gc EXCEPT !.pjDropped = @ \cup {p}]
    /\ UNCHANGED <<mutex, pjContext, ctxFreed, pjs, errno, pc, call, held,
                   native, ret>>

DropContext(t, c) ==
    /\ pc[t] = "idle" /\ c \notin gc.ctxDropped
    /\ gc' = [gc EXCEPT !.ctxDropped = @ \cup {c}]
    /\ UNCHANGED <<mutex, pjContext, ctxFreed, pjs, errno, pc, call, held,
                   native, ret>>

\* the PJ object is gone: nothing refers to it and its finalizer, if it
\* has one, has been called and has returned
PJCollected(p) ==
    /\ p \in gc.pjDropped
    /\ PJFinalizer(p) # "none" =>
         /\ p \in gc.pjFinalized
         /\ \A t \in Threads :
              ~(call[t].op = "PJ.Destroy" /\ call[t].p = p)

\* a Context is unreachable when the program has dropped it and every PJ
\* whose context field points to it is gone
ContextUnreachable(c) ==
    /\ c \in gc.ctxDropped
    /\ \A p \in PJIds : pjs[p].context = c => PJCollected(p)

\* the finalizer goroutine t calls the finalizer of an unreachable PJ
FinalizePJ(t, p) ==
    /\ PJFinalizer(p) = "Destroy"
    /\ p \in gc.pjDropped /\ p \notin gc.pjFinalized
    /\ gc' = [gc EXCEPT !.pjFinalized = @ \cup {p}]
    /\ Enter(t, pjs[p].context,
             [op |-> "PJ.Destroy", p |-> p, plan |-> <<pjs[p].context>>])
    /\ UNCHANGED <<pjContext, ctxFreed, pjs, errno, native>>

\* the finalizer goroutine t calls the finalizer of an unreachable Context
FinalizeContext(t, c) ==
    /\ ContextFinalizer(c) = "Destroy"
    /\ ContextUnreachable(c) /\ c \notin gc.ctxFinalized
    /\ gc' = [gc EXCEPT !.ctxFinalized = @ \cup {c}]
    /\ Enter(t, c, [op |-> "Context.Destroy", c |-> c, plan |-> <<c>>])
    /\ UNCHANGED <<pjContext, ctxFreed, pjs, errno, native>>

----------------------------------------------------------------------------
(* Context.SetLogLevel, the default Context and the package-level functions *)

LogLevels == {"PJ_LOG_NONE", "PJ_LOG_ERROR", "PJ_LOG_DEBUG", "PJ_LOG_TRACE",
              "PJ_LOG_TELL"}

SetLogLevel(t, c, logLevel) ==
    /\ Enter(t, c, [op |-> "SetLogLevel", c |-> c, logLevel |-> logLevel,
                    plan |-> <<c>>])
    /\ UNCHANGED <<pjContext, ctxFreed, pjs, errno, native, gc>>

\* C.proj_log_level(c.pjContext, C.PJ_LOG_LEVEL(logLevel))
SetLogLevelBody(t) ==
    /\ pc[t] = "body" /\ call[t].op = "SetLogLevel"
    /\ Issue(t, NativeCall("proj_log_level", pjContext[call[t].c], <<>>)
                @@ [level |-> call[t].logLevel])
    /\ UNCHANGED <<mutex, pjContext, ctxFreed, pjs, errno, call, held, ret, gc>>

\* the native call has returned, deferred Unlock
SetLogLevelReturn(t) ==
    /\ pc[t] = "native" /\ call[t].op = "SetLogLevel"
    /\ Return(t, [op |-> "SetLogLevel"])
    /\ UNCHANGED <<pjContext, ctxFreed, pjs, errno, gc>>

\* var defaultContext = &Context{}: a Context that NewContext did not make.
\* Its pjContext is nil, so its native calls reach the engine's own default
\* context, and no finalizer is registered for it.
defaultContext == "default"

\* the package-level functions: each is the method of the same name called
\* on defaultContext (OfSource: on the context of the first PJ argument)
PackageSetLogLevel(t, logLevel) == SetLogLevel(t, defaultContext, logLevel)
PackageNew(t, definition) == New(t, defaultContext, definition)
PackageNewFromArgs(t, args) == NewFromArgs(t, defaultContext, args)
PackageNewCRSToCRS(t, sourceCRS, targetCRS) ==
    NewCRSToCRS(t, defaultContext, sourceCRS, targetCRS)
PackageNewCRSToCRSFromPJOfSource(t, sourcePJ, targetPJ) ==
    NewCRSToCRSFromPJ(t, pjs[sourcePJ].context, sourcePJ, targetPJ)
PackageNewCRSToCRSFromPJ(t, sourcePJ, targetPJ) ==
    NewCRSToCRSFromPJ(t, defaultContext, sourcePJ, targetPJ)
PackageCreateCompoundCrs(t, name, horizontalPJ, verticalPJ) ==
    CreateCompoundCrs(t, defaultContext, name, horizontalPJ, verticalPJ)
PackageGetAuthoritiesFromDatabase(t) ==
    GetAuthoritiesFromDatabase(t, defaultContext)
PackageGetAllCRSCodes(t) == GetAllCRSCodes(t, defaultContext)

----------------------------------------------------------------------------
(* Initial states: contexts made by NewContext, one CRS PJ made in each *)

InitWith(cs) ==
    /\ mutex = [c \in {cs[i] : i \in 1..Len(cs)} |-> NoThread]
    /\ pjContext = [c \in {cs[i] : i \in 1..Len(cs)} |-> c]
    /\ ctxFreed = [c \in {cs[i] : i \in 1..Len(cs)} |-> 0]
    /\ pjs = [i \in 1..Len(cs) |-> PJObject(cs[i], i)]
    /\ errno = [c \in {cs[i] : i \in 1..Len(cs)} |-> 0]
    /\ pc = [t \in Threads |-> "idle"]
    /\ call = [t \in Threads |-> IdleCall]
    /\ held = [t \in Threads |-> <<>>]
    /\ native = [t \in Threads |-> NoNative]
    /\ ret = [t \in Threads |-> NoRet]
    /\ gc = NoGC

----------------------------------------------------------------------------
(* Spec: two contexts with one PJ each, two goroutines; destruction        *)
(* (explicit or by a finalizer), Trans and IsCRS in any interleaving       *)

Init == InitWith(<<"A", "B">>)

Next ==
    \E t \in Threads :
        \/ \E c \in Ctxs : ContextDestroy(t, c)
        \/ ContextDestroyBody(t)
        \/ ContextDestroyReturn(t)
        \/ \E p \in PJIds : PJDestroy(t, p)
        \/ PJDestroyBody(t)
        \/ PJDestroyReturn(t)
        \/ \E p \in PJIds : Trans(t, p, DirectionFwd, ZeroCoord)
        \/ TransBody(t)
        \/ TransNative(t)
        \/ TransReturn(t)
        \/ \E p \in PJIds : IsCRS(t, p)
        \/ IsCRSReturn(t)

Spec == Init /\ [][Next]_vars

----------------------------------------------------------------------------
(* SpecCompose: two contexts with one PJ each, two goroutines composing    *)
(* PJs of either context through either context                            *)

NextCompose ==
    \E t \in Threads :
        \/ \E c \in Ctxs, p, q \in PJIds : NewCRSToCRSFromPJ(t, c, p, q)
        \/ NewCRSToCRSFromPJBody(t)
        \/ NewCRSToCRSFromPJNative(t)
        \/ NewCRSToCRSFromPJReturn(t)
        \/ \E c \in Ctxs, p, q \in PJIds : CreateCompoundCrs(t, c, "", p, q)
        \/ CreateCompoundCrsBody(t)
        \/ CreateCompoundCrsNative(t)
        \/ CreateCompoundCrsReturn(t)
        \/ Lock(t)

SpecCompose == Init /\ [][NextCompose]_vars

----------------------------------------------------------------------------
(* SpecLock: three contexts with one PJ each, one goroutine composing      *)

InitLock == InitWith(<<"A", "B", "C">>)

NextLock3 ==
    \E t \in {"t1"} :
        \/ \E c \in Ctxs, p, q \in PJIds : NewCRSToCRSFromPJ(t, c, p, q)
        \/ NewCRSToCRSFromPJBody(t)
        \/ NewCRSToCRSFromPJNative(t)
        \/ NewCRSToCRSFromPJReturn(t)
        \/ \E c \in Ctxs, p, q \in PJIds, name \in {"", "compound"} :
              CreateCompoundCrs(t, c, name, p, q)
        \/ CreateCompoundCrsBody(t)
        \/ CreateCompoundCrsNative(t)
        \/ CreateCompoundCrsReturn(t)
        \/ Lock(t)

SpecLock == InitLock /\ [][NextLock3]_vars

----------------------------------------------------------------------------
(* SpecTrans: one context with one PJ, one goroutine calling the Trans     *)
(* family one call after the other                                         *)

InitTrans == InitWith(<<"A">>)

\* the float64 slices callers pass in: 0 to 5 ordinates
InputSlices == {SubSeq(<<0, MaxVal, MaxVal, 0, MaxVal>>, 1, n) : n \in 0..5}

\* the flat buffers callers pass in, with the indexes of z and m (-1: none)
InputFlatCoords == {[i \in 1..n |-> i % (MaxVal + 1)] : n \in 0..MaxFlat}
FlatIndexes == {-1, 2, 3}

\* direct calls of TransGeneric: four interleaved ordinates per point, an
\* axis without points gets no pointer
InputGenericBuf == [i \in 1..(4 * MaxCount) |-> i % (MaxVal + 1)]
InputGeneric ==
    {[x |-> IF nx = 0 THEN Null ELSE 0, sx |-> 32, nx |-> nx,
      y |-> IF ny = 0 THEN Null ELSE 1, sy |-> 32, ny |-> ny,
      z |-> IF nz = 0 THEN Null ELSE 2, sz |-> 32, nz |-> nz,
      m |-> Null, sm |-> 0, nm |-> 0] :
        nx \in 0..MaxCount, ny \in 0..MaxCount, nz \in {0, MaxCount}}

NextTrans ==
    \E t \in {"t1"} :
        \/ \E p \in PJIds, d \in Directions, coord \in InputCoords : Trans(t, p, d, coord)
        \/ TransBody(t)
        \/ TransNative(t)
        \/ TransReturn(t)
        \/ \E p \in PJIds, coords \in Seqs(InputCoords, MaxLen) :
              TransArray(t, p, DirectionInv, coords)
        \/ \E p \in PJIds, slices \in Seqs(InputSlices, MaxLen) :
              TransFloat64Slices(t, p, DirectionFwd, slices)
        \/ \E p \in PJIds, slice \in InputSlices :
              TransFloat64Slice(t, p, DirectionFwd, slice)
        \/ TransFloat64SliceBody(t)
        \/ TransFloat64SliceNative(t)
        \/ TransFloat64SliceReturn(t)
        \/ TransArrayBody(t)
        \/ TransArrayNative(t)
        \/ TransArrayReturn(t)
        \/ \E p \in PJIds, bounds \in InputCoords, n \in {0, 21} :
              TransBounds(t, p, DirectionFwd, bounds, n)
        \/ TransBoundsBody(t)
        \/ TransBoundsNative(t)
        \/ TransBoundsReturn(t)
        \/ \E p \in PJIds, g \in InputGeneric :
              TransGeneric(t, p, DirectionFwd, g, InputGenericBuf)
        \/ \E p \in PJIds, flatCoords \in InputFlatCoords,
              stride \in 0..(MaxFlat - 1), zIndex \in FlatIndexes, mIndex \in FlatIndexes :
              TransFlatCoords(t, p, DirectionInv, flatCoords, stride, zIndex, mIndex)
        \/ TransGenericBody(t)
        \/ TransGenericNative(t)
        \/ TransGenericFault(t)
        \/ TransGenericReturn(t)

SpecTrans == InitTrans /\ [][NextTrans]_vars

----------------------------------------------------------------------------
(* SpecFactory: two contexts with one PJ each, one goroutine creating,     *)
(* deriving and destroying PJs                                             *)

\* the argument lists callers pass to NewFromArgs
InputArgs == {<<>>, <<"proj=utm">>, <<"proj=utm", "zone=32">>}

\* the search paths callers pass to SetSearchPaths
InputPaths == {<<>>, <<"/a">>, <<"/a", "/b">>}

NextFactory ==
    \E t \in {"t1"} :
        \/ \E c \in Ctxs : New(t, c, "epsg:4326")
        \/ NewBody(t)
        \/ \E c \in Ctxs, args \in InputArgs : NewFromArgs(t, c, args)
        \/ NewFromArgsBody(t)
        \/ \E c \in Ctxs : NewCRSToCRS(t, c, "epsg:4326", "epsg:3857")
        \/ NewCRSToCRSBody(t)
        \/ \E p \in PJIds : NormalizeForVisualization(t, p)
        \/ NormalizeForVisualizationBody(t)
        \/ \E p \in PJIds : GetLastUsedOperation(t, p)
        \/ GetLastUsedOperationBody(t)
        \/ CreateNative(t)
        \/ CreateReturn(t)
        \/ \E c \in Ctxs, p, q \in PJIds : NewCRSToCRSFromPJ(t, c, p, q)
        \/ NewCRSToCRSFromPJBody(t)
        \/ NewCRSToCRSFromPJNative(t)
        \/ NewCRSToCRSFromPJReturn(t)
        \/ \E c \in Ctxs, p, q \in PJIds, name \in {"", "compound"} :
              CreateCompoundCrs(t, c, name, p, q)
        \/ CreateCompoundCrsBody(t)
        \/ CreateCompoundCrsNative(t)
        \/ CreateCompoundCrsReturn(t)
        \/ Lock(t)
        \/ \E p \in PJIds : PJDestroy(t, p)
        \/ PJDestroyBody(t)
        \/ PJDestroyReturn(t)
        \/ \E p \in PJIds : GetSubCRS(t, p, 0)
        \/ \E p \in PJIds : ListSubCRS(t, p)
        \/ GetSubCRSBody(t)
        \/ GetSubCRSNative(t)
        \/ GetSubCRSReturn(t)
        \/ \E p \in PJIds : Identify(t, p)
        \/ IdentifyRawBody(t)
        \/ IdentifyRawNative(t)
        \/ IdentifyRawReturn(t)
        \/ IdentifyItemBody(t)
        \/ IdentifyItemNative(t)
        \/ IdentifyItemReturn(t)
        \/ \E c \in Ctxs, paths \in InputPaths : SetSearchPaths(t, c, paths)
        \/ SetSearchPathsBody(t)
        \/ SetSearchPathsReturn(t)

SpecFactory == Init /\ [][NextFactory]_vars

----------------------------------------------------------------------------
(* SpecDerive: two contexts with one PJ each, two goroutines deriving PJs  *)
(* with NormalizeForVisualization and destroying PJs                       *)

NextDerive ==
    \E t \in Threads :
        \/ \E p \in PJIds : NormalizeForVisualization(t, p)
        \/ NormalizeForVisualizationBody(t)
        \/ CreateNative(t)
        \/ CreateReturn(t)
        \/ \E p \in PJIds : PJDestroy(t, p)
        \/ PJDestroyBody(t)
        \/ PJDestroyReturn(t)

SpecDerive == Init /\ [][NextDerive]_vars

----------------------------------------------------------------------------
(* SpecInfo: one context with one PJ, one goroutine creating PJs and       *)
(* asking for type, exports and database listings                          *)

NextInfo ==
    \E t \in {"t1"} :
        \/ \E c \in Ctxs : New(t, c, "epsg:4326")
        \/ NewBody(t)
        \/ CreateNative(t)
        \/ CreateReturn(t)
        \/ \E p \in PJIds : GetType(t, p)
        \/ GetTypeBody(t)
        \/ GetTypeNative(t)
        \/ GetTypeReturn(t)
        \/ \E p \in PJIds : AsWkt(t, p)
        \/ \E p \in PJIds : AsProjJson(t, p)
        \/ ExportBody(t)
        \/ ExportNative(t)
        \/ ExportReturn(t)
        \/ \E c \in Ctxs : GetAuthoritiesFromDatabase(t, c)
        \/ \E c \in Ctxs : GetAllCRSCodes(t, c)
        \/ DatabaseBody(t)
        \/ DatabaseNative(t)
        \/ GetAuthoritiesFromDatabaseReturn(t)
        \/ GetAllCRSCodesReturn(t)

SpecInfo == InitTrans /\ [][NextInfo]_vars

----------------------------------------------------------------------------
(* SpecFullInfo: two contexts, one PJ in the first, one goroutine calling  *)
(* FullInfo                                                                *)

InitFullInfo ==
    /\ mutex = [c \in {"A", "B"} |-> NoThread]
    /\ pjContext = [c \in {"A", "B"} |-> c]
    /\ ctxFreed = [c \in {"A", "B"} |-> 0]
    /\ pjs = <<PJObject("A", 1)>>
    /\ errno = [c \in {"A", "B"} |-> 0]
    /\ pc = [t \in Threads |-> "idle"]
    /\ call = [t \in Threads |-> IdleCall]
    /\ held = [t \in Threads |-> <<>>]
    /\ native = [t \in Threads |-> NoNative]
    /\ ret = [t \in Threads |-> NoRet]
    /\ gc = NoGC

NextFullInfo ==
    \E t \in {"t1"} :
        \/ \E p \in PJIds : FullInfo(t, p)
        \/ FullInfoResume(t)
        \/ GetterBody(t)
        \/ GetterNative(t)
        \/ GetterReturn(t)
        \/ IsCRSReturn(t)
        \/ GetTypeBody(t)
        \/ GetTypeNative(t)
        \/ GetTypeReturn(t)
        \/ IdentifyRawBody(t)
        \/ IdentifyRawNative(t)
        \/ IdentifyRawReturn(t)
        \/ IdentifyItemBody(t)
        \/ IdentifyItemNative(t)
        \/ IdentifyItemReturn(t)

SpecFullInfo == InitFullInfo /\ [][NextFullInfo]_vars

----------------------------------------------------------------------------
(* SpecFinal: two contexts with one PJ each; the program (t1) transforms,  *)
(* drops its references and never calls Destroy, the finalizer goroutine   *)
(* of the runtime (t2) calls the finalizers                                *)

FinalCtxs == {"A", "B"}
FinalPJs == 1..Cardinality(FinalCtxs)

NextFinal ==
    \/ \E p \in PJIds : p \notin gc.pjDropped /\ Trans("t1", p, DirectionFwd, ZeroCoord)
    \/ TransBody("t1")
    \/ TransNative("t1")
    \/ TransReturn("t1")
    \/ \E p \in PJIds : DropPJ("t1", p)
    \/ \E c \in Ctxs : DropContext("t1", c)
    \/ \E p \in PJIds : FinalizePJ("t2", p)
    \/ \E c \in Ctxs : FinalizeContext("t2", c)
    \/ PJDestroyBody("t2")
    \/ PJDestroyReturn("t2")
    \/ ContextDestroyBody("t2")
    \/ ContextDestroyReturn("t2")

\* a goroutine inside a call goes on, and the collector calls the
\* finalizer of every unreachable object in the end
FairFinal ==
    /\ WF_vars(TransBody("t1")) /\ WF_vars(TransNative("t1"))
    /\ WF_vars(TransReturn("t1"))
    /\ WF_vars(\E p \in PJIds : FinalizePJ("t2", p))
    /\ WF_vars(\E c \in Ctxs : FinalizeContext("t2", c))
    /\ WF_vars(PJDestroyBody("t2")) /\ WF_vars(PJDestroyReturn("t2"))
    /\ WF_vars(ContextDestroyBody("t2")) /\ WF_vars(ContextDestroyReturn("t2"))

SpecFinal == Init /\ [][NextFinal]_vars /\ FairFinal

----------------------------------------------------------------------------
(* SpecDefault: the default Context and one Context made by NewContext     *)
(* with one PJ; two goroutines call the package-level functions, destroy  *)
(* PJs and destroy the Context they can reach                             *)

InitDefault ==
    /\ mutex = [c \in {defaultContext, "A"} |-> NoThread]
    /\ pjContext = [c \in {defaultContext, "A"} |->
                      IF c = defaultContext THEN NilCtx ELSE c]
    /\ ctxFreed = [c \in {defaultContext, "A"} |-> 0]
    /\ pjs = <<PJObject("A", 1)>>
    /\ errno = [c \in {defaultContext, "A"} |-> 0]
    /\ pc = [t \in Threads |-> "idle"]
    /\ call = [t \in Threads |-> IdleCall]
    /\ held = [t \in Threads |-> <<>>]
    /\ native = [t \in Threads |-> NoNative]
    /\ ret = [t \in Threads |-> NoRet]
    /\ gc = NoGC

NextDefault ==
    \E t \in Threads :
        \/ \E logLevel \in LogLevels : PackageSetLogLevel(t, logLevel)
        \/ SetLogLevelBody(t)
        \/ SetLogLevelReturn(t)
        \/ PackageNew(t, "epsg:4326")
        \/ NewBody(t)
        \/ \E args \in InputArgs : PackageNewFromArgs(t, args)
        \/ NewFromArgsBody(t)
        \/ PackageNewCRSToCRS(t, "epsg:4326", "epsg:3857")
        \/ NewCRSToCRSBody(t)
        \/ CreateNative(t)
        \/ CreateReturn(t)
        \/ \E p, q \in PJIds : PackageNewCRSToCRSFromPJ(t, p, q)
        \/ NewCRSToCRSFromPJBody(t)
        \/ NewCRSToCRSFromPJNative(t)
        \/ NewCRSToCRSFromPJReturn(t)
        \/ \E p, q \in PJIds : PackageCreateCompoundCrs(t, "", p, q)
        \/ CreateCompoundCrsBody(t)
        \/ CreateCompoundCrsNative(t)
        \/ CreateCompoundCrsReturn(t)
        \/ Lock(t)
        \/ PackageGetAuthoritiesFromDatabase(t)
        \/ PackageGetAllCRSCodes(t)
        \/ DatabaseBody(t)
        \/ DatabaseNative(t)
        \/ GetAuthoritiesFromDatabaseReturn(t)
        \/ GetAllCRSCodesReturn(t)
        \/ \E p \in PJIds : PJDestroy(t, p)
        \/ PJDestroyBody(t)
        \/ PJDestroyReturn(t)
        \/ \E c \in Ctxs \ {defaultContext} : ContextDestroy(t, c)
        \/ ContextDestroyBody(t)
        \/ ContextDestroyReturn(t)

SpecDefault == InitDefault /\ [][NextDefault]_vars

----------------------------------------------------------------------------
(* SpecProbe: two contexts with one PJ each, two goroutines calling Trans  *)
(* and GetSubCRS                                                           *)

NextProbe ==
    \E t \in Threads :
        \/ \E p \in PJIds : Trans(t, p, DirectionFwd, ZeroCoord)
        \/ TransBody(t)
        \/ TransNative(t)
        \/ TransReturn(t)
        \/ \E p \in PJIds : GetSubCRS(t, p, 0)
        \/ GetSubCRSBody(t)
        \/ GetSubCRSNative(t)
        \/ GetSubCRSReturn(t)

SpecProbe == Init /\ [][NextProbe]_vars

----------------------------------------------------------------------------
(* SpecIdentify: two contexts, one PJ in the first, one goroutine calling  *)
(* Identify on the PJs there are                                           *)

NextIdentify ==
    \E t \in {"t1"} :
        \/ \E p \in PJIds : Identify(t, p)
        \/ IdentifyRawBody(t)
        \/ IdentifyRawNative(t)
        \/ IdentifyRawReturn(t)
        \/ IdentifyItemBody(t)
        \/ IdentifyItemNative(t)
        \/ IdentifyItemReturn(t)

SpecIdentify == InitFullInfo /\ [][NextIdentify]_vars

----------------------------------------------------------------------------
(* SpecBalance: three contexts with one PJ each, one goroutine calling     *)
(* operations that lock one, two or three contexts, that fail and that    *)
(* panic                                                                   *)

NextBalance ==
    \E t \in {"t1"} :
        \/ \E c \in Ctxs, p, q \in PJIds : NewCRSToCRSFromPJ(t, c, p, q)
        \/ NewCRSToCRSFromPJBody(t)
        \/ NewCRSToCRSFromPJNative(t)
        \/ NewCRSToCRSFromPJReturn(t)
        \/ \E c \in Ctxs, p, q \in PJIds : CreateCompoundCrs(t, c, "", p, q)
        \/ CreateCompoundCrsBody(t)
        \/ CreateCompoundCrsNative(t)
        \/ CreateCompoundCrsReturn(t)
        \/ Lock(t)
        \/ \E c \in Ctxs, args \in InputArgs : NewFromArgs(t, c, args)
        \/ NewFromArgsBody(t)
        \/ CreateNative(t)
        \/ CreateReturn(t)
        \/ \E p \in PJIds : ListSubCRS(t, p)
        \/ GetSubCRSBody(t)
        \/ GetSubCRSNative(t)
        \/ GetSubCRSReturn(t)
        \/ \E p \in PJIds : Identify(t, p)
        \/ IdentifyRawBody(t)
        \/ IdentifyRawNative(t)
        \/ IdentifyRawReturn(t)
        \/ IdentifyItemBody(t)
        \/ IdentifyItemNative(t)
        \/ IdentifyItemReturn(t)
        \/ \E c \in Ctxs : GetAllCRSCodes(t, c)
        \/ DatabaseBody(t)
        \/ DatabaseNative(t)
        \/ GetAllCRSCodesReturn(t)
        \/ \E p \in PJIds : PJDestroy(t, p)
        \/ PJDestroyBody(t)
        \/ PJDestroyReturn(t)

SpecBalance == InitLock /\ [][NextBalance]_vars

----------------------------------------------------------------------------
(* Claims about locking and lifecycle *)

Composing == {"NewCRSToCRSFromPJ", "CreateCompoundCrs"}
RangeOf(seq) == {seq[i] : i \in 1..Len(seq)}

\* C1: cross-context composition is deadlock-free: there is no state in
\* which two goroutines composing PJs of each other's contexts each hold
\* one context lock and wait for the lock the other one holds.
C1_NoCrossDeadlock ==
    ~ \E t, u \in Threads :
        /\ t # u
        /\ pc[t] = "lock" /\ call[t].op \in Composing
        /\ pc[u] = "lock" /\ call[u].op \in Composing
        /\ mutex[NextLock(t)] = u
        /\ mutex[NextLock(u)] = t

\* C2: per-context mutual exclusion: at most one native call that works on
\* a context's engine handle or on a PJ handle derived from it is in
\* progress, and the goroutine making it holds that context's mutex.
C2_MutualExclusion ==
    \A c \in Ctxs :
        LET calling == {t \in Threads : Touches(native[t], c)}
        IN /\ Cardinality(calling) <= 1
           /\ \A t \in calling : mutex[c] = t

\* C3: a composing operation locks every distinct context among the
\* receiver and the owners of its two PJs exactly once, the receiver
\* first, then the first PJ's owner, then the second PJ's owner, all of
\* them before the native call, and never tries to lock a context it holds.
C3_LockEachOnceInOrder ==
    \A t \in Threads : call[t].op \in Composing =>
        LET c == call[t].c
            sc == pjs[call[t].p].context
            tc == pjs[call[t].q].context
            h == held[t]
        IN /\ Len(h) = Cardinality(RangeOf(h))
           /\ \A i \in 1..Len(h) : mutex[h[i]] = t
           /\ RangeOf(h) \subseteq {c, sc, tc}
           /\ h[1] = c
           /\ (Len(h) = 3 => h = <<c, sc, tc>>)
           /\ (pc[t] = "lock" => /\ NextLock(t) \notin RangeOf(h)
                                 /\ NextLock(t) \in {sc, tc}
                                 /\ (NextLock(t) = sc \/ sc \in RangeOf(h)))
           /\ (pc[t] \in {"body", "native", "after"} => RangeOf(h) = {c, sc, tc})

\* a composition whose two PJs belong to the receiver is in its native call
\* holding the receiver's lock only
C3_Witness ==
    \E t \in Threads :
        /\ pc[t] = "native" /\ call[t].op \in Composing
        /\ pjs[call[t].p].context = call[t].c
        /\ pjs[call[t].q].context = call[t].c
        /\ held[t] = <<call[t].c>>

\* C4: idempotent destruction: the native release function is invoked at
\* most once for every engine handle and every PJ handle, the Go handle is
\* nil once the Destroy that released it has returned, and a handle is
\* nil only after exactly one release.
Destroying(op, x) ==
    \E t \in Threads : /\ pc[t] = "native" /\ call[t].op = op
                       /\ IF op = "PJ.Destroy" THEN call[t].p = x ELSE call[t].c = x

C4_IdempotentDestroy ==
    /\ \A c \in Ctxs :
        /\ ctxFreed[c] <= 1
        /\ (ctxFreed[c] >= 1 /\ ~Destroying("Context.Destroy", c)
              => pjContext[c] = NilCtx)
        /\ (pjContext[c] = NilCtx => ctxFreed[c] = 1)
    /\ \A p \in PJIds :
        /\ pjs[p].freed <= 1
        /\ (pjs[p].freed >= 1 /\ ~Destroying("PJ.Destroy", p)
              => pjs[p].pj = NilPJ)
        /\ (pjs[p].pj = NilPJ => pjs[p].freed = 1)

\* a later Destroy of a PJ and a later Destroy of a Context are both about
\* to find their handle nil
C4_Witness ==
    \E t, u \in Threads :
        /\ pc[t] = "body" /\ call[t].op = "PJ.Destroy"
        /\ pjs[call[t].p].pj = NilPJ
        /\ pc[u] = "body" /\ call[u].op = "Context.Destroy"
        /\ pjContext[call[u].c] = NilCtx

\* C5: no use after release: no native call is issued with an engine
\* handle or a PJ handle that is nil or released, or with a PJ handle
\* whose context has been destroyed.
C5_NoUseAfterRelease ==
    \A t \in Threads : native[t].fn # "none" => native[t].ok

----------------------------------------------------------------------------
(* Claims about the Trans family *)

\* goroutine t returns from the operation op in this step
Returns(t, op) == pc[t] = "after" /\ call[t].op = op /\ pc'[t] = "idle"

\* C6: Trans returns the zero Coord and a non-nil error when errno read
\* after the native call is nonzero, the native result and a nil error
\* when it is zero, and never a non-zero Coord together with an error.
C6_TransResultProtocol ==
    [][\A t \in Threads : Returns(t, "Trans") =>
         /\ (errno[Owner(t)] # 0 =>
               /\ ret'[t].val = ZeroCoord
               /\ ret'[t].err = newError(errno[Owner(t)]))
         /\ (errno[Owner(t)] = 0 =>
               /\ ret'[t].val = native[t].out.pjCoord
               /\ ret'[t].err = NilErr)
         /\ (ret'[t].err # NilErr => ret'[t].val = ZeroCoord)]_vars

\* Trans is about to return with errno nonzero and a native result that is
\* not the zero Coord
C6_Witness ==
    \E t \in Threads :
        /\ pc[t] = "after" /\ call[t].op = "Trans"
        /\ errno[Owner(t)] # 0
        /\ native[t].out.pjCoord # ZeroCoord

\* C7: a failed transform does not poison the PJ: a Trans that follows a
\* Trans on the same PJ that returned an error, and whose own native call
\* raises no error, returns a nil error.
C7_FailedTransDoesNotPoison ==
    [][\A t \in Threads :
         Returns(t, "Trans") /\ call[t].after /\ native[t].out.nset = 0
           => ret'[t].err = NilErr]_vars

\* the Trans after a failed Trans found the errno of the failure in the
\* register, its own native call raised nothing
C7_Witness ==
    \E t \in Threads :
        /\ pc[t] = "after" /\ call[t].op = "Trans"
        /\ call[t].after /\ call[t].lastErrno # 0
        /\ native[t].out.nset = 0

\* C8: errno is a scoped resource around Trans, TransArray, TransBounds and
\* TransGeneric: it is reset before the native call and, on every exit
\* path, has the value it had immediately before the call once the call
\* has returned.
C8_ErrnoScoped ==
    [][\A t \in Threads :
         call[t].op \in {"Trans", "TransArray", "TransBounds", "TransGeneric"} =>
           /\ (pc[t] = "body" /\ pc'[t] = "native" => errno'[Owner(t)] = 0)
           /\ (pc[t] = "after" /\ pc'[t] = "idle" => errno'[Owner(t)] = call[t].pre)]_vars

\* C9: TransGeneric returns a nil error if and only if the count the
\* native call handed back equals max(nx, ny, nz, nm), whatever errno is.
C9_GenericCountDecides ==
    [][\A t \in Threads : Returns(t, "TransGeneric") =>
         (ret'[t].err = NilErr <=> native[t].out.count = Max4(call[t].g))]_vars

\* TransGeneric is about to return after a partial, non-zero count with
\* errno 0
C9_Witness ==
    \E t \in Threads :
        /\ pc[t] = "after" /\ call[t].op = "TransGeneric"
        /\ native[t].out.count > 0
        /\ native[t].out.count < Max4(call[t].g)
        /\ errno[Owner(t)] = 0

\* C10: TransArray, TransFlatCoords and TransFloat64Slices on an empty
\* input return a nil error without locking, without a native call and
\* without a panic (no element 0 is addressed, no division by the stride).
EmptyInputOps == {"TransArray", "TransFlatCoords", "TransFloat64Slices"}

C10_EmptyInputNoOp ==
    \A t \in Threads :
        /\ (pc[t] = "panic" /\ call[t].op \in EmptyInputOps => call[t].n > 0)
        /\ (call[t].op = "TransArray" => Len(call[t].coords) > 0)
        /\ (call[t].op = "TransGeneric" /\ call[t].from = "TransFlatCoords"
              => Len(call[t].buf) > 0)
        /\ (ret[t].op \in EmptyInputOps /\ ret[t].n = 0
              => /\ ret[t].err = NilErr
                 /\ pc[t] = "idle" /\ native[t] = NoNative /\ held[t] = <<>>)

\* TransFlatCoords has returned for an empty buffer and stride 0
C10_Witness ==
    \E t \in Threads :
        /\ ret[t].op = "TransFlatCoords" /\ ret[t].n = 0 /\ ret[t].stride = 0
        /\ pc[t] = "idle"

\* goroutine t is in the TransGeneric call that TransFlatCoords made
FromFlat(t) == call[t].op = "TransGeneric" /\ call[t].from = "TransFlatCoords"

\* C11: TransFlatCoords marshaling: TransGeneric gets x at element 0 and y
\* at element 1 with byte strides 8 * stride and counts len / stride; z
\* (and m) is a null pointer with stride 0 and count 0 when its index is
\* -1, else the element at the index with stride 8 * stride and count
\* len / stride.
C11_FlatMarshaling ==
    \A t \in Threads : FromFlat(t) =>
        LET g == call[t].g
            in == call[t].in
            n == Len(call[t].buf) \div in.stride
        IN /\ g.x = 0 /\ g.sx = 8 * in.stride /\ g.nx = n
           /\ g.y = 1 /\ g.sy = 8 * in.stride /\ g.ny = n
           /\ IF in.zIndex = -1
              THEN g.z = Null /\ g.sz = 0 /\ g.nz = 0
              ELSE g.z = in.zIndex /\ g.sz = 8 * in.stride /\ g.nz = n
           /\ IF in.mIndex = -1
              THEN g.m = Null /\ g.sm = 0 /\ g.nm = 0
              ELSE g.m = in.mIndex /\ g.sm = 8 * in.stride /\ g.nm = n

\* the native call made for TransFlatCoords is in progress for a buffer of
\* more than one record, with an m index and without a z index
C11_Witness ==
    \E t \in Threads :
        /\ FromFlat(t) /\ pc[t] = "native"
        /\ call[t].in.zIndex = -1 /\ call[t].in.mIndex # -1
        /\ call[t].g.nx > 1

FlatWellFormed(t) ==
    LET in == call[t].in
    IN /\ in.stride >= 2
       /\ Len(call[t].buf) >= in.stride
       /\ in.zIndex \in {-1} \cup (2..(in.stride - 1))
       /\ in.mIndex \in {-1} \cup (2..(in.stride - 1))

\* C13: for such inputs every element the engine can address through the
\* triples TransFlatCoords passes lies inside the buffer, and the elements
\* of a record at offsets other than 0, 1, zIndex and mIndex are never
\* addressed and keep their value.
C13_FlatFrame ==
    \A t \in Threads : FromFlat(t) /\ FlatWellFormed(t) =>
        LET in == call[t].in
            buf == call[t].buf
            addressed == Addressed(call[t].g, Max4(call[t].g))
            others == {i \in InBuf(buf) :
                          i % in.stride \notin {0, 1, in.zIndex, in.mIndex}}
        IN /\ addressed \subseteq InBuf(buf)
           /\ addressed \cap others = {}
           /\ (pc[t] = "after" =>
                 /\ Len(native[t].out.buf) = Len(buf)
                 /\ \A i \in others : native[t].out.buf[i + 1] = buf[i + 1])

\* two records of three fields without a z and an m index have been
\* transformed: x and y changed, the third field of each record is left
C13_Witness ==
    \E t \in Threads :
        /\ FromFlat(t) /\ FlatWellFormed(t) /\ pc[t] = "after"
        /\ call[t].in.stride = 3 /\ call[t].in.zIndex = -1
        /\ call[t].g.nx = 2 /\ native[t].out.count = 2
        /\ native[t].out.buf[1] # call[t].buf[1]
        /\ native[t].out.buf[5] # call[t].buf[5]

\* a slice of the length of before whose first four elements are those of
\* coord and whose other elements are those of before
SameShape(after, before, coord) ==
    /\ Len(after) = Len(before)
    /\ \A j \in 1..Len(before) :
         after[j] = IF j <= 4 THEN coord[j] ELSE before[j]

\* slice padded with zeros, or cut, to four components
Padded(slice) == <<IF Len(slice) >= 1 THEN slice[1] ELSE 0,
                   IF Len(slice) >= 2 THEN slice[2] ELSE 0,
                   IF Len(slice) >= 3 THEN slice[3] ELSE 0,
                   IF Len(slice) >= 4 THEN slice[4] ELSE 0>>

\* C14: TransFloat64Slice and TransFloat64Slices preserve shape: after a
\* successful call every slice has the length it had, its first min(n, 4)
\* elements are those of the coordinate the engine made of the input
\* padded with zeros, the elements from index 4 on are unchanged, and the
\* i-th output slice belongs to the i-th input slice.
C14_SlicesKeepShape ==
    [][\A t \in Threads :
         /\ (Returns(t, "TransFloat64Slice") /\ ret'[t].err = NilErr =>
               /\ native[t].out.pjCoord \in
                    {Engine(call[t].direction, Padded(call[t].float64Slice)), InfCoord}
               /\ SameShape(ret'[t].val, call[t].float64Slice, native[t].out.pjCoord))
         /\ (Returns(t, "TransArray") /\ call[t].from = "TransFloat64Slices"
               /\ ret'[t].err = NilErr =>
               /\ Len(ret'[t].slices) = Len(call[t].slices)
               /\ \A i \in 1..Len(call[t].slices) :
                    /\ native[t].out.coords[i] \in
                         {Engine(call[t].direction, Padded(call[t].slices[i])), InfCoord}
                    /\ SameShape(ret'[t].slices[i], call[t].slices[i],
                                 native[t].out.coords[i]))]_vars

\* TransFloat64Slices is about to return without error for a slice of two
\* and a slice of five elements
C14_Witness ==
    \E t \in Threads :
        /\ pc[t] = "after" /\ call[t].op = "TransArray"
        /\ call[t].from = "TransFloat64Slices"
        /\ native[t].out.errno = 0
        /\ Len(call[t].slices) = 2
        /\ Len(call[t].slices[1]) = 2 /\ Len(call[t].slices[2]) = 5

----------------------------------------------------------------------------
(* Claims about the factories *)

Factories == Factories1 \cup Composing

\* C15: every PJ factory returns exactly one of a non-nil PJ with a nil
\* error, when the native call handed back a handle, or a nil PJ with a
\* non-nil error carrying the context's errno, when it handed back null.
C15_FactoryEitherOr ==
    [][\A t \in Threads : \A op \in Factories : Returns(t, op) =>
         IF native[t].out.null
         THEN /\ ret'[t].obj = NilPJ
              /\ ret'[t].err = newError(errno[call[t].c])
              /\ ret'[t].err # NilErr
         ELSE /\ ret'[t].obj # NilPJ
              /\ ret'[t].obj \in DOMAIN pjs' \ DOMAIN pjs
              /\ pjs'[ret'[t].obj].pj # NilPJ
              /\ ret'[t].err = NilErr]_vars

\* a factory is about to return for a null handle while errno is 0
C15_Witness ==
    \E t \in Threads :
        /\ pc[t] = "after" /\ call[t].op = "GetLastUsedOperation"
        /\ native[t].out.null /\ errno[call[t].c] = 0

\* the operations that make PJ objects from a PJ
Deriving == {"NormalizeForVisualization", "GetLastUsedOperation",
             "GetSubCRS", "Identify"}

\* C16: ownership of created handles: a PJ made by a Context factory is
\* owned by the receiver, also when the PJs handed to NewCRSToCRSFromPJ or
\* CreateCompoundCrs belong to other contexts; a PJ made by
\* NormalizeForVisualization, GetLastUsedOperation, GetSubCRS, ListSubCRS
\* or Identify on a PJ p is owned by p's context; the owner of a PJ never
\* changes.
C16_Ownership ==
    [][/\ \A q \in DOMAIN pjs :
            q \in DOMAIN pjs' /\ pjs'[q].context = pjs[q].context
       /\ \A q \in DOMAIN pjs' \ DOMAIN pjs :
            \E t \in Threads :
              /\ pc[t] = "after"
              /\ call[t].op \in Factories \cup Deriving
              /\ pjs'[q].context = IF call[t].op \in Deriving
                                   THEN pjs[call[t].p].context
                                   ELSE call[t].c]_vars

\* a context is about to wrap the handle made of two PJs of the other
\* context
C16_Witness ==
    \E t \in Threads :
        /\ pc[t] = "after" /\ call[t].op \in Composing
        /\ ~native[t].out.null
        /\ pjs[call[t].p].context # call[t].c
        /\ pjs[call[t].q].context # call[t].c

\* C17: NormalizeForVisualization returns a new PJ whose handle is not the
\* receiver's and leaves the receiver as it is; a Destroy of a PJ releases
\* the handle of that PJ only, every other PJ, the one it was derived from
\* and those derived from it included, keeps its handle and stays usable.
C17_DerivedIndependent ==
    [][\A t \in Threads :
         /\ (Returns(t, "NormalizeForVisualization") /\ ~native[t].out.null =>
               /\ pjs'[ret'[t].obj].pj \notin {NilPJ, pjs[call[t].p].pj}
               /\ pjs'[call[t].p] = pjs[call[t].p])
         /\ (call[t].op = "PJ.Destroy" /\ pc'[t] # pc[t] =>
               \A q \in PJIds \ {call[t].p} :
                   /\ pjs'[q] = pjs[q]
                   /\ (HandleOk(pjs[q].pj) => pjs'[q].pj # NilPJ /\ pjs'[q].freed = 0))]_vars

\* the PJ a derived PJ was made from has been destroyed, the derived PJ is
\* usable
C17_Witness ==
    /\ Len(pjs) = 3
    /\ pjs[3].pj # NilPJ /\ pjs[3].freed = 0
    /\ \E p \in 1..2 : /\ pjs[p].context = pjs[3].context
                       /\ pjs[p].pj = NilPJ /\ pjs[p].freed = 1
    /\ \A t \in Threads : pc[t] = "idle"

\* C18: CreateCompoundCrs forwards the name: the native call gets a null
\* name pointer if and only if name is the empty string, and a C string
\* equal to name whenever name is not empty.
C18_NameForwarded ==
    \A t \in Threads : native[t].fn = "proj_create_compound_crs" =>
        /\ (native[t].name = NullString <=> call[t].name = "")
        /\ (call[t].name # "" => native[t].name = call[t].name)

\* C19: NewFromArgs has the outcomes of New for every argument sequence,
\* the empty one included: it returns a PJ or a creation error and never
\* panics.
C19_NewFromArgsNoPanic ==
    \A t \in Threads :
        /\ ~(pc[t] = "panic" /\ call[t].op = "NewFromArgs")
        /\ (ret[t].op = "NewFromArgs" =>
              (ret[t].obj = NilPJ <=> ret[t].err # NilErr))

\* C20: SetSearchPaths passes count = len(paths) to the engine and a null
\* array pointer exactly when paths is empty, no native string is freed
\* while the native call runs, and when the call has returned every native
\* string it allocated has been freed exactly once.
C20_SearchPathsScoped ==
    \A t \in Threads :
        /\ (native[t].fn = "proj_context_set_search_paths" =>
              /\ native[t].count = Len(call[t].paths)
              /\ (native[t].ptr = Null <=> Len(call[t].paths) = 0)
              /\ Len(call[t].cPaths) = Len(call[t].paths)
              /\ \A i \in 1..Len(call[t].cPaths) : native[t].freed[i] = 0)
        /\ (ret[t].op = "SetSearchPaths" =>
              /\ Len(ret[t].freed) = ret[t].n
              /\ \A i \in 1..ret[t].n : ret[t].freed[i] = 1)

\* SetSearchPaths has returned for two paths
C20_Witness ==
    \E t \in Threads : ret[t].op = "SetSearchPaths" /\ ret[t].n = 2

----------------------------------------------------------------------------
(* Claims about introspection and export *)

\* C21: GetType returns an error exactly when the native type value is
\* outside the known set; a value of the set is answered with a nil error
\* and a PJType no other value of the set is answered with, and a value
\* outside the set is never answered with PJ_TYPE_UNKNOWN.
C21_GetTypeTotal ==
    [][\A t \in Threads : Returns(t, "GetType") =>
          LET cType == native[t].out.pjType IN
          /\ (ret'[t].err # NilErr) <=> (cType \notin KnownCTypes)
          /\ cType \in KnownCTypes =>
                \A other \in KnownCTypes \ {cType} :
                    mapPJTypeFromC(other).val # ret'[t].val
          /\ cType \notin KnownCTypes => ret'[t].val # "UNKNOWN"]_vars

\* GetType has been handed a value outside the set and is about to return
C21_Witness ==
    \E t \in Threads :
        /\ pc[t] = "after" /\ call[t].op = "GetType"
        /\ native[t].out.pjType \notin KnownCTypes

\* C22: AsWkt tells its two failures apart: with a nonzero errno after the
\* native call it returns the error made of that errno; with errno zero and
\* a null text it returns an error that is not made of an errno; with errno
\* zero and a text it returns the copy of the text and a nil error.
C22_AsWktFailureKinds ==
    [][\A t \in Threads : Returns(t, "AsWkt") /\ native[t].ok =>
          LET e == errno[Owner(t)]
              wkt == native[t].out.text IN
          /\ e # 0 => ret'[t].val = "" /\ ret'[t].err = newError(e)
          /\ e = 0 /\ wkt = NullString =>
                /\ ret'[t].val = ""
                /\ ret'[t].err # NilErr
                /\ ret'[t].err.kind # "Error"
          /\ e = 0 /\ wkt # NullString =>
                ret'[t].val = wkt /\ ret'[t].err = NilErr]_vars

\* AsWkt got null from the engine while errno is zero and is about to return
C22_Witness ==
    \E t \in Threads :
        /\ pc[t] = "after" /\ call[t].op = "AsWkt" /\ native[t].ok
        /\ native[t].out.text = NullString
        /\ errno[Owner(t)] = 0

\* C23: AsProjJson returns a non-nil error whenever the native export
\* failed, also when the engine returned null without raising an errno; a
\* failed export never comes back as the empty string with a nil error.
C23_AsProjJsonFailure ==
    [][\A t \in Threads : Returns(t, "AsProjJson") /\ native[t].ok =>
          (native[t].out.text = NullString \/ errno[Owner(t)] # 0
              => ret'[t].err # NilErr)]_vars

\* C24: GetSubCRS has three outcomes, decided by the native result and the
\* errno after the reset: errno nonzero gives (nil, error); errno zero and
\* a null handle gives (nil, nil); errno zero and a handle gives a new PJ
\* and a nil error.  In all three the errno register has the value from
\* before the call when GetSubCRS returns.
C24_GetSubCRSOutcomes ==
    [][\A t \in Threads :
         Returns(t, "GetSubCRS") /\ call[t].from = "GetSubCRS" /\ native[t].ok =>
           LET e == errno[Owner(t)]
               null == native[t].out.null IN
           /\ e # 0 => ret'[t].obj = NilPJ /\ ret'[t].err # NilErr
           /\ e = 0 /\ null => ret'[t].obj = NilPJ /\ ret'[t].err = NilErr
           /\ e = 0 /\ ~null =>
                 /\ ret'[t].err = NilErr
                 /\ ret'[t].obj = Len(pjs')
                 /\ Len(pjs') = Len(pjs) + 1
           /\ errno'[Owner(t)] = call[t].pre]_vars

\* a step of the goroutine t inside ListSubCRS, after a probe came back
ListStep(t) ==
    /\ pc[t] = "after" /\ call[t].op = "GetSubCRS"
    /\ call[t].from = "ListSubCRS" /\ native[t].ok
    /\ pc'[t] # "after"

\* C25: ListSubCRS probes the indices 0, 1, 2, ... in this order and stops
\* at the first end-of-list or error: with k < 100 sub-CRS it returns those
\* k PJs in index order; it makes at most 100 probes and returns a nil
\* result and an error if none of them signalled the end; on a probe error
\* it returns a nil result and that error.
C25_ListSubCRS ==
    [][\A t \in Threads : ListStep(t) =>
          LET e == errno[Owner(t)]
              null == native[t].out.null
              i == call[t].index IN
          /\ Len(call[t].result) = i /\ i < MaxTries
          /\ e # 0 =>
                /\ pc'[t] = "idle"
                /\ ret'[t].list = <<>>
                /\ ret'[t].err = WrapErr(newError(e))
          /\ e = 0 /\ null =>
                /\ pc'[t] = "idle"
                /\ ret'[t].list = call[t].result /\ ret'[t].err = NilErr
          /\ e = 0 /\ ~null /\ i + 1 < MaxTries =>
                /\ pc'[t] = "body"
                /\ call'[t].index = i + 1
                /\ call'[t].result = Append(call[t].result, Len(pjs'))
          /\ e = 0 /\ ~null /\ i + 1 >= MaxTries =>
                /\ pc'[t] = "idle"
                /\ ret'[t].list = <<>> /\ ret'[t].err # NilErr]_vars

\* C26: Identify releases the native lists on every path: a list handle
\* and a confidence array the native identify call handed back have each
\* been destroyed exactly once when Identify returns, be it with its
\* matches, after a failed read of a list item or with errno nonzero after
\* the identify call.
C26_IdentifyReleasesLists ==
    [][\A t \in Threads :
         call[t].op = "Identify" /\ pc[t] \in {"after", "list"} /\ pc'[t] = "idle" =>
           /\ ret'[t].lists.list => ret'[t].destroyed.list = 1
           /\ ret'[t].lists.conf => ret'[t].destroyed.conf = 1]_vars

\* C27: IsCRS holds the mutex of the owning context around its native
\* call, so that proj_is_crs never runs at the same time as another native
\* call on the same context.
C27_IsCRSLocked ==
    \A t \in Threads :
        pc[t] = "native" /\ native[t].fn = "proj_is_crs" =>
            LET c == pjs[call[t].p].context IN
            /\ mutex[c] = t
            /\ \A u \in Threads \ {t} : ~Touches(native[u], c)

C29_NoStaleErrno ==
    [][\A t \in Threads :
         /\ pc[t] = "after" /\ pc'[t] # "after"
         /\ call[t].op \in {"GetAuthoritiesFromDatabase", "GetAllCRSCodes"}
         /\ native[t].ok /\ native[t].out.nset = 0
         => /\ pc'[t] # "lock"
            /\ pc'[t] = "idle" => ret'[t].err = NilErr
            /\ call[t].op = "GetAuthoritiesFromDatabase" =>
                 ret'[t].list = native[t].out.list]_vars

\* C30: leak freedom by finalization: the engine handle of every Context
\* and the handle of every PJ has Destroy as its finalizer, so a handle the
\* caller never destroys is released in the end, exactly once and only
\* after the object became unreachable, and a Context is never finalized
\* while a PJ that references it has still to be finalized.
C30_LeakFreedom ==
    /\ [](\A p \in FinalPJs :
            /\ pjs[p].freed <= 1
            /\ pjs[p].freed = 1 => p \in gc.pjDropped)
    /\ [](\A c \in FinalCtxs :
            /\ ctxFreed[c] <= 1
            /\ c \in gc.ctxFinalized =>
                 /\ c \in gc.ctxDropped
                 /\ \A p \in FinalPJs : pjs[p].context = c =>
                      p \in gc.pjFinalized /\ pjs[p].pj = NilPJ)
    /\ \A p \in FinalPJs :
          (p \in gc.pjDropped) ~> (pjs[p].freed = 1 /\ pjs[p].pj = NilPJ)
    /\ \A c \in FinalCtxs :
          (c \in gc.ctxDropped /\ \A p \in FinalPJs :
                pjs[p].context = c => p \in gc.pjDropped)
            ~> (ctxFreed[c] = 1 /\ pjContext[c] = NilCtx)

\* the finalizers have released a PJ handle and then the engine handle of
\* its context
C30_Witness ==
    /\ "A" \in gc.ctxFinalized /\ 1 \in gc.pjFinalized
    /\ pjs[1].freed = 1 /\ ctxFreed["A"] = 1

----------------------------------------------------------------------------
(* Claims about results, the default context and lock discipline *)

\* C31: TransBounds returns the zero Bounds and a non-nil error if and only
\* if the success flag of the native call is 0, the native output bounds
\* and a nil error otherwise, and the error carries the errno this call
\* raised, not one an earlier call left in the register.
C31_TransBoundsResult ==
    [][\A t \in Threads : Returns(t, "TransBounds") =>
         /\ (~native[t].out.success <=>
               ret'[t].val = ZeroCoord /\ ret'[t].err # NilErr)
         /\ (native[t].out.success =>
               ret'[t].val = native[t].out.transBounds /\ ret'[t].err = NilErr)
         /\ (ret'[t].err # NilErr =>
               ret'[t].err = newError(native[t].out.nset))]_vars

\* the operations the package-level functions run
PackageOps == {"SetLogLevel", "New", "NewFromArgs", "NewCRSToCRS",
               "NewCRSToCRSFromPJ", "CreateCompoundCrs",
               "GetAuthoritiesFromDatabase", "GetAllCRSCodes"}

\* C32: the package-level functions all operate on the one default
\* Context: it is the receiver of every such call and the owner of every
\* PJ they create, each of their native calls is made while the caller
\* holds its mutex, and the default Context is never destroyed.
C32_DefaultContext ==
    /\ [](\A t \in Threads : call[t].op \in PackageOps /\ pc[t] # "panic" =>
            /\ call[t].c = defaultContext
            /\ (native[t].fn # "none" => mutex[defaultContext] = t))
    /\ [][\A p \in (DOMAIN pjs') \ (DOMAIN pjs) :
            pjs'[p].context = defaultContext]_vars
    /\ [](/\ ctxFreed[defaultContext] = 0
          /\ pjContext[defaultContext] = NilCtx
          /\ \A t \in Threads :
               native[t].fn = "proj_context_destroy" => native[t].ctx # NilCtx)

\* the package-level NewCRSToCRSFromPJ is about to wrap a new handle made
\* of a PJ another Context owns, after an earlier call has made a PJ
C32_Witness ==
    \E t \in Threads :
        /\ pc[t] = "after" /\ call[t].op = "NewCRSToCRSFromPJ"
        /\ pjs[call[t].p].context # defaultContext
        /\ ~native[t].out.null
        /\ Len(pjs) > 1

\* C33: self-deadlock freedom: no operation tries to lock again the
\* non-reentrant context mutex it already holds (a goroutine that does
\* blocks for ever, so its call never returns), in particular not while an
\* error message is built inside ListSubCRS or GetAllCRSCodes.
C33_NoSelfDeadlock ==
    \A t \in Threads : pc[t] = "lock" => mutex[NextLock(t)] # t

\* C34: Identify holds the mutex of the owning context for its whole
\* native interaction: while any of its native calls (proj_identify, the
\* list count, every proj_list_get) is in progress, and from there until
\* errno has been read and restored and the match PJ has been made, the
\* calling goroutine holds the mutex.
C34_IdentifyLocked ==
    \A t \in Threads :
        call[t].op = "Identify" /\ pc[t] \in {"native", "after"}
          => mutex[Owner(t)] = t

\* C35: GetSubCRS called directly holds the mutex of the owning context
\* from its errno reset to its errno restore, so that between the native
\* call of a concurrent Trans on the same context and the errno read of
\* that Trans nothing resets or overwrites errno.
C35_GetSubCRSLocked ==
    /\ [](\A t \in Threads :
            /\ call[t].op = "GetSubCRS" /\ call[t].from = "GetSubCRS"
            /\ pc[t] \in {"native", "after"}
            => mutex[Owner(t)] = t)
    /\ [][\A t \in Threads :
            call[t].op = "Trans" /\ pc[t] = "after" /\ pc'[t] = "after"
              => errno'[Owner(t)] = errno[Owner(t)]]_vars

\* C36: Identify pairs its results by position: on success the slice has
\* as many entries as the native list has items, entry i is the PJ made of
\* list item i and carries element i of the confidence array; when an item
\* cannot be read the result is a nil slice and an error, never a shorter
\* list.
C36_IdentifyPositional ==
    [][\A t \in Threads :
         call[t].op = "Identify" /\ call[t].stage = "list" /\ pc'[t] = "idle" =>
           IF ret'[t].err = NilErr
           THEN /\ Len(ret'[t].list) = call[t].count
                /\ \A i \in 1..call[t].count :
                     /\ ret'[t].list[i].PJ = call[t].matches[i]
                     /\ call[t].items[i] = i - 1
                     /\ ret'[t].list[i].Confidence = call[t].confs[i]
                /\ \A i, j \in 1..call[t].count :
                     i # j => ret'[t].list[i].PJ # ret'[t].list[j].PJ
           ELSE ret'[t].list = <<>>]_vars

\* Identify is about to return two matches whose confidences differ
C36_Witness ==
    \E t \in Threads :
        /\ call[t].op = "Identify" /\ pc[t] = "list"
        /\ call[t].i = call[t].count /\ call[t].count = 2
        /\ call[t].confs[1] # call[t].confs[2]

\* C37: batch transforms abort rather than skip: TransArray returns a
\* non-nil error exactly when the native array transform hands back a
\* nonzero code; TransFloat64Slices then returns that error and leaves
\* every slice of the caller as it was, and copies the coordinates back
\* only when the whole batch succeeded.
C37_BatchAborts ==
    [][\A t \in Threads : Returns(t, "TransArray") =>
         /\ (ret'[t].err # NilErr <=> native[t].out.errno # 0)
         /\ (ret'[t].err # NilErr =>
               ret'[t].err = newError(native[t].out.errno))
         /\ (call[t].from = "TransFloat64Slices" =>
               ret'[t].slices =
                 IF native[t].out.errno # 0 THEN call[t].slices
                 ELSE CopyBack(call[t].slices, native[t].out.coords))]_vars

\* the TransArray of a TransFloat64Slices is about to return an error
\* after the engine has transformed one coordinate of two and failed on
\* the other; copying back would change the first slice
C37_Witness ==
    \E t \in Threads :
        /\ pc[t] = "after" /\ call[t].op = "TransArray"
        /\ call[t].from = "TransFloat64Slices"
        /\ native[t].out.errno # 0
        /\ Len(call[t].slices) = 2
        /\ native[t].out.coords[1] # InfCoord
        /\ native[t].out.coords[2] = InfCoord
        /\ CopyBack(call[t].slices, native[t].out.coords)[1] # call[t].slices[1]

\* C38: locks are balanced: when a public operation returns or panics,
\* on success or on any error path, the calling goroutine holds none of
\* the context mutexes (one, two or three) it acquired during the call,
\* and every Unlock a goroutine runs releases a mutex that goroutine holds.
C38_LocksBalanced ==
    [][\A t \in Threads :
         /\ (pc[t] # "idle" /\ pc'[t] \in {"idle", "panic"} =>
               \A c \in Ctxs : mutex'[c] # t)
         /\ (\A i \in 1..Len(held[t]) :
               (\A j \in 1..Len(held'[t]) : held'[t][j] # held[t][i]) =>
                  /\ mutex[held[t][i]] = t
                  /\ mutex'[held[t][i]] = NoThread)]_vars

\* an operation that has locked three contexts is about to return
C38_Witness ==
    \E t \in Threads :
        /\ pc[t] = "after" /\ Len(held[t]) = 3
        /\ \A i \in 1..3 : mutex[held[t][i]] = t

====
